---------------------------- MODULE Spec2Model ----------------------------
(***************************************************************************)
(* New-article discovery and deduplication of the architecture-news        *)
(* aggregator: the custom scrapers' fetch_articles runs (Bauwelt,          *)
(* Identity, Domus, Metalocus, Landscape Architecture Magazine, World      *)
(* Landscape Architect) against the article tracker's seen-store.          *)
(*                                                                         *)
(* Identifiers are integers.  A positive integer n is a URL (pattern       *)
(* scrapers) or a headline (vision scrapers); link n is the article whose  *)
(* true headline is n.  The negative integer -n is the title text that     *)
(* Bauwelt derives from URL n (url_title), which is never a URL.           *)
(***************************************************************************)
EXTENDS Integers, Sequences, FiniteSets, TLC

\* ------------------------------------------------------------------ bounds
\* Identifiers of the small listings.
MaxIds == 2
\* Runs of fetch_articles in one behaviour (also the tracker's clock range).
MaxRuns == 2
\* close() calls in a row.
MaxCloses == 2
\* Length of the longest AI reply.
MaxReplyLen == 4
\* Host labels in the URLs tried.
MaxLabels == 3
\* Links on a listing page given to _extract_article_links.
MaxAnchors == 2
\* Length of the longest burst listing (more new identifiers than the cap).
BurstLen == 12

\* ------------------------------------------------------- program constants
\* bauwelt.py: MAX_NEW_ARTICLES (the LAM and WLA classes set the same value)
MAX_NEW_ARTICLES == 10
\* identity.py: max_new
max_new == 10
\* domus.py: MAX_NEW
MAX_NEW == 10
\* metalocus.py: the slice [:10]
METALOCUS_SLICE == 10
\* MAX_ARTICLE_AGE_DAYS of each class
BAUWELT_MAX_ARTICLE_AGE_DAYS == 14
IDENTITY_MAX_ARTICLE_AGE_DAYS == 2
DOMUS_MAX_ARTICLE_AGE_DAYS == 2
METALOCUS_MAX_ARTICLE_AGE_DAYS == 2

\* ---------------------------------------------------------------- scrapers
Bauwelt == "bauwelt"
Identity == "identity"
Domus == "domus"
Metalocus == "metalocus"
LAM == "landscape_architecture_magazine"
WLA == "world_landscape_architect"

ScraperIds == {Bauwelt, Identity, Domus, Metalocus, LAM, WLA}

\* Vision strategy: headline identifiers, link resolved by the AI matcher.
IsVision(s) == s \in {Identity, Domus, Metalocus}

\* Pattern scrapers that mark the new URLs seen before building the list.
IsPremark(s) == s \in {LAM, WLA}

\* The per-run cap of each scraper.
Cap(s) ==
    CASE s = Identity -> max_new
      [] s = Domus -> MAX_NEW
      [] s = Metalocus -> METALOCUS_SLICE
      [] OTHER -> MAX_NEW_ARTICLES

\* The maximum article age of each scraper that filters by age.
MaxAge(s) ==
    CASE s = Bauwelt -> BAUWELT_MAX_ARTICLE_AGE_DAYS
      [] s = Identity -> IDENTITY_MAX_ARTICLE_AGE_DAYS
      [] s = Domus -> DOMUS_MAX_ARTICLE_AGE_DAYS
      [] OTHER -> METALOCUS_MAX_ARTICLE_AGE_DAYS

\* A second source sharing the tracker with source s.
OtherSource(s) == IF s = Bauwelt THEN Identity ELSE Bauwelt

\* ----------------------------------------------------------------- helpers
Range(q) == {q[i] : i \in DOMAIN q}

\* q[:n]
Take(q, n) == SubSeq(q, 1, IF Len(q) < n THEN Len(q) ELSE n)

\* q[n:]
Drop(q, n) == SubSeq(q, n + 1, Len(q))

Asc(n) == [i \in 1..n |-> i]

Desc(n) == [i \in 1..n |-> n + 1 - i]

Ids == 1..MaxIds

\* url.split("/")[-1].replace("-", " ").replace(".html", ""): a title, not a URL.
url_title(u) == 0 - u


\* -------------------------------------------------- article tracker (store)
\* The tracker's records of one source: identifier -> SeenRecord, where rows
\* counts the stored rows of the identifier (1 unless a duplicate was written).
NoUrl == 0

EmptyStore == [x \in {} |-> 0]

SeenRecord(now, url) == [rows |-> 1, firstSeenAt |-> now, url |-> url]

\* get_stored_headlines: all identifiers ever seen for the source.
get_stored_headlines(st) == DOMAIN st

\* find_new_headlines / filter_new_articles: the input minus the seen set,
\* input order preserved.
find_new_headlines(st, ids) == SelectSeq(ids, LAMBDA x : x \notin DOMAIN st)

\* A defective insert that writes a second row for a present identifier.
InsertAlways(st, x, now) ==
    IF x \in DOMAIN st
    THEN [st EXCEPT ![x].rows = @ + 1, ![x].firstSeenAt = now]
    ELSE (x :> SeenRecord(now, NoUrl)) @@ st

\* Insert of one identifier: a no-op when it is present.
InsertIfAbsent(st, x, now) ==
    IF x \in DOMAIN st THEN st ELSE (x :> SeenRecord(now, NoUrl)) @@ st

RECURSIVE store_headlines(_, _, _)
\* store_headlines / mark_as_seen: insert each identifier of the batch.
store_headlines(st, ids, now) ==
    IF ids = <<>> THEN st
    ELSE store_headlines(InsertIfAbsent(st, Head(ids), now), Tail(ids), now)

\* A defective update that stamps the record anew.
UpdateRestamps(st, x, url, now) == (x :> SeenRecord(now, url)) @@ st

\* update_headline_url: attach the resolved link; creates the record when the
\* identifier is absent (upsert), overwrites a link that is present.
update_headline_url(st, x, url, now) ==
    IF x \in DOMAIN st
    THEN [st EXCEPT ![x].url = url]
    ELSE (x :> SeenRecord(now, url)) @@ st

\* ------------------------------------------------------------------- state
VARIABLES
    source,           \* source_id of the scraper instance of this behaviour
    store,            \* tracker records: source -> (identifier -> SeenRecord)
    clock,            \* number of runs started; the tracker's timestamp
    tracker,          \* self.tracker: "none", "unconnected", "connected"
    llm,              \* self.llm / self.vision_model is initialised
    pc,               \* position of fetch_articles
    page,             \* browser page: "none", "listing", "article", "closed"
    page_closes,      \* page.close() calls of this run
    cands,            \* article_urls / current_headlines / all_urls
    new_all,          \* new_urls / new_headlines before the cap
    todo,             \* urls_to_process / new_headlines after the cap
    idx,              \* loop position in todo
    new_articles,     \* articles built so far
    skipped_old,
    skipped_no_link,
    exit,             \* how the run ended
    published,        \* links returned by earlier runs
    seen0,            \* identifiers stored for source when the run began
    marked,           \* identifiers passed to store_headlines / mark_as_seen
    log,              \* what each loop iteration of this run met
    trackerFault,     \* a tracker call failed in this run
    dropped,          \* identifiers beyond the cap of earlier completed runs
    submitted,        \* identifiers this run passed to store_headlines / mark_as_seen
    connects,         \* connect() calls since construction or the last close()
    closes,           \* close() calls since construction or the last run
    fn,               \* the function under a call of its own, or "none"
    arg,              \* its argument
    result            \* its result, once it has returned

runVars == <<cands, new_all, todo, idx, new_articles, skipped_old,
             skipped_no_link, log>>

vars == <<source, store, clock, tracker, llm, pc, page, page_closes, cands,
          new_all, todo,
          idx, new_articles, skipped_old, skipped_no_link, exit, published,
          seen0, marked, log, trackerFault, dropped, submitted, connects,
          closes, fn, arg, result>>

\* The variables of the scraper runs.
scraperVars == <<source, store, clock, tracker, llm, pc, page, page_closes,
                 cands, new_all,
                 todo, idx, new_articles, skipped_old, skipped_no_link, exit,
                 published, seen0, marked, log, trackerFault, dropped,
                 submitted, connects, closes>>

\* The variables of the calls of single functions: no scraper run touches them.
callVars == <<fn, arg, result>>

Seen(s) == get_stored_headlines(store[s])

\* What fetch_articles handed back: new_articles on the normal return, [] on
\* every early return and in the outer except handler.
Returned == IF exit = "ok" THEN new_articles ELSE <<>>

Raised == exit \in {"raised_connect", "raised_llm"}

Links(arts) == {arts[i].link : i \in DOMAIN arts}

\* Loop positions whose processing raised.
RaisedAt == {i \in DOMAIN log : log[i].raised}

\* New identifiers left out by the cap.
Excess == Range(Drop(new_all, Len(todo)))

ScraperInit ==
    /\ source \in ScraperIds
    /\ store = [s \in ScraperIds |-> EmptyStore]
    /\ clock = 0
    /\ tracker = "none"
    /\ llm = FALSE
    /\ pc = "idle"
    /\ page = "none"
    /\ page_closes = 0
    /\ cands = <<>>
    /\ new_all = <<>>
    /\ todo = <<>>
    /\ idx = 0
    /\ new_articles = <<>>
    /\ skipped_old = 0
    /\ skipped_no_link = 0
    /\ exit = "none"
    /\ published = {}
    /\ seen0 = {}
    /\ marked = [s \in ScraperIds |-> {}]
    /\ log = <<>>
    /\ trackerFault = FALSE
    /\ dropped = {}
    /\ submitted = {}
    /\ connects = 0
    /\ closes = 0

\* No call has returned yet.
Pending == [returned |-> FALSE]

Init ==
    /\ ScraperInit
    /\ fn = "none"
    /\ arg = <<>>
    /\ result = Pending

\* ------------------------------------------------------------ environment
\* Listings a small page can yield: a window of the identifiers, newest or
\* oldest first.  Bauwelt's AI filter maps every number of the reply to a
\* URL, so its list may repeat a URL; the other scrapers deduplicate (dict
\* keys) or list distinct headlines.
Window(lo, hi) == [i \in 1..(hi + 1 - lo) |-> lo + i - 1]

Reverse(q) == [i \in 1..Len(q) |-> q[Len(q) + 1 - i]]

Windows ==
    {<<>>} \cup {Window(lo, hi) : lo \in Ids, hi \in Ids}
           \cup {Reverse(Window(lo, hi)) : lo \in Ids, hi \in Ids}

SmallListings(s) ==
    IF s = Bauwelt THEN Windows \cup {<<1, 1>>} ELSE Windows

\* Listings of a burst: more new identifiers than the cap.
BurstListings(s) == {<<>>, Asc(BurstLen - 1), Asc(BurstLen), Desc(BurstLen)}

\* Loop positions at which the environment may misbehave (an item fails, is
\* old, undated, unmatched or mismatched); the other items are processed
\* without incident.
FaultPositions == {1}

\* In a burst: the first item and the last item the cap lets through.
BurstFaultPositions == {1, MAX_NEW_ARTICLES}

\* Publish dates an article page can show, as (kind, age in days).
DateOutcomes(s) ==
    {[date |-> "none", days |-> 0], [date |-> "bad", days |-> 0]}
    \cup {[date |-> "iso", days |-> d] : d \in {MaxAge(s), MaxAge(s) + 1}}

\* The link of another container of the listing page than headline h's own.
NeighbourLink(h) == (h % MaxIds) + 1

NominalDate(s) == [date |-> "iso", days |-> MaxAge(s)]

\* ------------------------------------------------------ fetch_articles code
\* A defective query that ignores the source id.
StoredForAnySource(s) == UNION {get_stored_headlines(store[x]) : x \in ScraperIds}

\* seen_urls = await self.tracker.get_stored_headlines(self.source_id)
StoredFor(s) == get_stored_headlines(store[s])

\* [url for url in article_urls if url not in seen_set]
ClientFilter(urls, seen_set) == SelectSeq(urls, LAMBDA u : u \notin seen_set)

\* A defective filter that takes every candidate for new.
NoFilter(s, ids) == ids

\* The new identifiers of a run, as each scraper computes them.
NewOf(s, ids) ==
    IF s \in {Bauwelt, Domus, Metalocus}
    THEN ClientFilter(ids, StoredFor(s))
    ELSE find_new_headlines(store[s], ids)

\* A defective cap that lets every new identifier through.
Uncapped(s, q) == q

\* new_urls[:self.MAX_NEW_ARTICLES]
Capped(s, q) == Take(q, Cap(s))

\* A defective age test that also drops the boundary day.
TooOldInclusive(s, days) == days >= MaxAge(s)

\* days_old > self.MAX_ARTICLE_AGE_DAYS
TooOld(s, days) == days > MaxAge(s)

\* A defective age filter that also drops an item without a publish date.
AgeFilteredOrUndated(s, dt) ==
    dt.date = "none" \/ (dt.date = "iso" /\ TooOld(s, dt.days))

\* if published: ... if days_old > self.MAX_ARTICLE_AGE_DAYS: ... continue
AgeFiltered(s, dt) == dt.date = "iso" /\ TooOld(s, dt.days)

\* A defective end-of-run store that records only the items that were built.
StoredBuiltOnly == [i \in DOMAIN new_articles |-> new_articles[i].id]

\* A defective end-of-run store that leaves out the items the loop skipped
\* for a missing link or an exception.
StoredWithoutSkipped ==
    SelectSeq(cands, LAMBDA c :
        \A i \in DOMAIN log :
            todo[i] = c => log[i].stage \notin {"nolink", "raised"})

\* A defective end-of-run store that records the processed identifiers only.
StoredProcessedOnly == todo

\* The identifiers the end-of-run step stores: all that were discovered.
StoredAtEnd == cands

\* A defective handler that leaves the loop at the first failing item.
ItemErrorBreaks(nextpc) == "store"

\* except Exception ... continue: the loop goes on with the next item.
AfterItemError(nextpc) == nextpc

\* A defective exit that leaves the page as it is.
LeftOpen == page

\* finally: await page.close(), once a page was created.
ClosedPage == IF page = "none" THEN "none" ELSE "closed"

\* The page.close() calls of the run once the finally clause has run.
ClosesAtExit == IF ClosedPage = "closed" THEN page_closes + 1 ELSE page_closes

Article(id, link, dt) ==
    [id |-> id, link |-> link, date |-> dt.date, days |-> dt.days]

\* A defective _ensure_tracker that connects whether or not a tracker exists.
AlwaysConnect(tr) == TRUE

\* if not self.tracker:
NeedsConnect(tr) == tr = "none"

\* _ensure_tracker, (Bauwelt) _ensure_llm, both before the try block.
BeginRun ==
    /\ pc \in {"idle", "done"}
    /\ clock < MaxRuns
    /\ clock' = clock + 1
    /\ published' = published \cup Links(Returned)
    /\ dropped' = IF exit \in {"ok", "err_stats"} THEN dropped \cup Excess
                  ELSE dropped
    /\ seen0' = Seen(source)
    /\ cands' = <<>>
    /\ new_all' = <<>>
    /\ todo' = <<>>
    /\ idx' = 0
    /\ new_articles' = <<>>
    /\ skipped_old' = 0
    /\ skipped_no_link' = 0
    /\ log' = <<>>
    /\ page' = "none"
    /\ page_closes' = 0
    /\ submitted' = {}
    /\ closes' = 0
    /\ connects' = IF NeedsConnect(tracker) THEN connects + 1 ELSE connects
    /\ \/ /\ NeedsConnect(tracker)     \* ArticleTracker() set, connect() raises
          /\ tracker' = "unconnected"
          /\ trackerFault' = TRUE
          /\ exit' = "raised_connect"
          /\ pc' = "done"
          /\ llm' = llm
       \/ /\ tracker' = IF NeedsConnect(tracker) THEN "connected" ELSE tracker
          /\ trackerFault' = FALSE
          /\ \/ /\ source = Bauwelt    \* OPENAI_API_KEY not set
                /\ ~llm
                /\ exit' = "raised_llm"
                /\ pc' = "done"
                /\ llm' = llm
             \/ /\ llm' = IF source = Bauwelt THEN TRUE ELSE llm
                /\ exit' = "none"
                /\ pc' = "load"
    /\ UNCHANGED <<source, store, marked>>
    /\ UNCHANGED callVars

\* Page creation, page load and candidate discovery, up to the early returns.
LoadPage(listings) ==
    /\ pc = "load"
    /\ \/ /\ IsPremark(source)
          /\ \/ /\ exit' = "err_load"        \* _fetch_html raised
                /\ pc' = "done"
                /\ cands' = <<>>
             \/ \E q \in listings :
                   /\ cands' = q
                   /\ IF q = <<>>
                      THEN exit' = "nolinks" /\ pc' = "done"
                      ELSE exit' = exit /\ pc' = "filter"
          /\ UNCHANGED <<page, page_closes, llm>>
       \/ /\ ~IsPremark(source)
          /\ \/ /\ exit' = "err_page"        \* _create_page raised
                /\ pc' = "done"
                /\ UNCHANGED <<page, page_closes, llm, cands>>
             \/ /\ exit' = "err_load"        \* goto / screenshot / AI call raised
                /\ pc' = "done"
                /\ page' = "closed"
                /\ page_closes' = page_closes + 1
                /\ UNCHANGED <<llm, cands>>
             \/ /\ IsVision(source)          \* _ensure_vision_model raised
                /\ ~llm
                /\ exit' = "err_llm"
                /\ pc' = "done"
                /\ page' = "closed"
                /\ page_closes' = page_closes + 1
                /\ UNCHANGED <<llm, cands>>
             \/ \E q \in listings :
                   /\ cands' = q
                   /\ llm' = TRUE
                   /\ IF q = <<>>
                      THEN /\ exit' = "nolinks" /\ pc' = "done"
                           /\ page' = "closed"
                           /\ page_closes' = page_closes + 1
                      ELSE /\ exit' = exit /\ pc' = "filter"
                           /\ page' = "listing"
                           /\ page_closes' = page_closes
    /\ UNCHANGED <<source, store, clock, tracker, new_all, todo, idx,
                   new_articles, skipped_old, skipped_no_link, published,
                   seen0, marked, log, trackerFault, dropped, submitted,
                   connects, closes>>
    /\ UNCHANGED callVars

\* The tracker query, the "nothing new" return, the cap.
Filter ==
    /\ pc = "filter"
    /\ \/ /\ exit' = "err_query"             \* the tracker query raised
          /\ trackerFault' = TRUE
          /\ pc' = "done"
          /\ page' = ClosedPage
          /\ page_closes' = ClosesAtExit
          /\ UNCHANGED <<store, marked, submitted, new_all, todo, idx>>
       \/ /\ tracker = "connected"
          /\ new_all' = NewOf(source, cands)
          /\ IF new_all' = <<>>
             THEN /\ page' = ClosedPage
                  /\ page_closes' = ClosesAtExit
                  /\ pc' = "done"
                  /\ UNCHANGED <<todo, idx>>
                  /\ IF source = Bauwelt
                     THEN \/ /\ store' = [store EXCEPT ![source] =
                                    store_headlines(@, cands, clock)]
                             /\ marked' = [marked EXCEPT ![source] =
                                    @ \cup Range(cands)]
                             /\ submitted' = submitted \cup Range(cands)
                             /\ exit' = "nonew"
                             /\ UNCHANGED trackerFault
                          \/ /\ exit' = "err_store"
                             /\ trackerFault' = TRUE
                             /\ UNCHANGED <<store, marked, submitted>>
                     ELSE /\ exit' = "nonew"
                          /\ UNCHANGED <<store, marked, submitted,
                                         trackerFault>>
             ELSE IF IsPremark(source)
             THEN \/ /\ store' = [store EXCEPT ![source] =
                            store_headlines(@, new_all', clock)]
                     /\ marked' = [marked EXCEPT ![source] =
                            @ \cup Range(new_all')]
                     /\ submitted' = submitted \cup Range(new_all')
                     /\ todo' = Capped(source, new_all')
                     /\ idx' = 1
                     /\ pc' = "loop"
                     /\ UNCHANGED <<exit, trackerFault, page, page_closes>>
                  \/ /\ exit' = "err_store"  \* mark_as_seen raised
                     /\ trackerFault' = TRUE
                     /\ pc' = "done"
                     /\ UNCHANGED <<store, marked, submitted, todo, idx, page,
                                   page_closes>>
             ELSE /\ todo' = Capped(source, new_all')
                  /\ idx' = 1
                  /\ pc' = "loop"
                  /\ UNCHANGED <<store, marked, submitted, exit, trackerFault,
                                 page, page_closes>>
    /\ UNCHANGED <<source, clock, tracker, llm, cands, new_articles,
                   skipped_old, skipped_no_link, published, seen0, log,
                   dropped, connects, closes>>
    /\ UNCHANGED callVars

\* What one loop iteration met: the publish date it obtained (if it got that
\* far), how far the item went, and whether the iteration raised.
Entry(dt, stage, raised) ==
    [date |-> dt.date, days |-> dt.days, stage |-> stage, raised |-> raised]

Undated == [date |-> "unknown", days |-> 0]

\* A defective loop step that also counts a built article as skipped.
ItemCountedTwice(arts, st, e, so, snl, pg, tf) ==
    /\ new_articles' = arts
    /\ store' = [store EXCEPT ![source] = st]
    /\ log' = Append(log, e)
    /\ skipped_old' = skipped_old + so + (IF e.stage = "built" THEN 1 ELSE 0)
    /\ skipped_no_link' = skipped_no_link + snl
    /\ page' = pg
    /\ page_closes' = page_closes
    /\ trackerFault' = (trackerFault \/ tf)
    /\ idx' = idx + 1
    /\ pc' = LET nextpc == IF idx + 1 > Len(todo) THEN "store" ELSE "loop"
             IN  IF e.raised THEN AfterItemError(nextpc) ELSE nextpc

\* The end of one loop iteration: arts is new_articles, st the source's
\* records, e the iteration's entry, so / snl the skip counts, pg the page
\* position, tf whether a tracker call failed.
ItemDone(arts, st, e, so, snl, pg, tf) ==
    /\ new_articles' = arts
    /\ store' = [store EXCEPT ![source] = st]
    /\ log' = Append(log, e)
    /\ skipped_old' = skipped_old + so
    /\ skipped_no_link' = skipped_no_link + snl
    /\ page' = pg
    /\ page_closes' = page_closes
    /\ trackerFault' = (trackerFault \/ tf)
    /\ idx' = idx + 1
    /\ pc' = LET nextpc == IF idx + 1 > Len(todo) THEN "store" ELSE "loop"
             IN  IF e.raised THEN AfterItemError(nextpc) ELSE nextpc

\* Identity, Domus, Metalocus: match the headline to a link, visit the
\* article, filter by date, build the article, record the link, go back.
VisionItem(free) ==
    LET h == todo[idx]
        dates == IF free THEN DateOutcomes(source) ELSE {NominalDate(source)}
        counted == IF source = Metalocus THEN 0 ELSE 1
        mine == store[source]
    IN  \/ /\ free                       \* the AI call or page.goto(url) raised
           /\ \E pg \in {page, "article"} :
                 ItemDone(new_articles, mine, Entry(Undated, "raised", TRUE),
                          0, 0, pg, FALSE)
        \/ /\ free                       \* no match, or a match without a link
           /\ ItemDone(new_articles, mine, Entry(Undated, "nolink", FALSE),
                       0, counted, page, FALSE)
        \/ /\ free                       \* the matcher picked another container
           /\ LET l == NeighbourLink(h)
                  dt == NominalDate(source)
              IN  ItemDone(Append(new_articles, Article(h, l, dt)),
                           update_headline_url(mine, h, l, clock),
                           Entry(dt, "built", FALSE), 0, 0, "listing", FALSE)
        \/ \E dt \in dates :
              IF dt.date = "bad"         \* fromisoformat raised
              THEN ItemDone(new_articles, mine, Entry(dt, "raised", TRUE),
                            0, 0, "article", FALSE)
              ELSE IF AgeFiltered(source, dt)
              THEN ItemDone(new_articles, mine, Entry(dt, "old", FALSE),
                            counted, 0, "article", FALSE)
              ELSE \/ /\ free            \* _validate_article is false
                      /\ ItemDone(new_articles, mine,
                                  Entry(dt, "invalid", FALSE),
                                  0, 0, "listing", FALSE)
                   \/ /\ free            \* update_headline_url raised
                      /\ ItemDone(Append(new_articles, Article(h, h, dt)),
                                  mine, Entry(dt, "built", TRUE),
                                  0, 0, "article", TRUE)
                   \/ ItemDone(Append(new_articles, Article(h, h, dt)),
                               update_headline_url(mine, h, h, clock),
                               Entry(dt, "built", FALSE),
                               0, 0, "listing", FALSE)
                   \/ /\ free            \* page.goto(base_url) raised
                      /\ ItemDone(Append(new_articles, Article(h, h, dt)),
                                  update_headline_url(mine, h, h, clock),
                                  Entry(dt, "built", TRUE),
                                  0, 0, "article", FALSE)

\* Bauwelt: visit the article for its date (failures give no date), filter
\* by date (a parse error includes the article), build, record under url_title.
BauweltItem(free) ==
    LET u == todo[idx]
        dates == IF free THEN DateOutcomes(source) ELSE {NominalDate(source)}
        mine == store[source]
    IN  \E dt \in dates :
           IF AgeFiltered(source, dt)
           THEN ItemDone(new_articles, mine, Entry(dt, "old", FALSE),
                         1, 0, "article", FALSE)
           ELSE \/ /\ free               \* _validate_article is false
                   /\ ItemDone(new_articles, mine, Entry(dt, "invalid", FALSE),
                               0, 0, "article", FALSE)
                \/ /\ free               \* update_headline_url raised
                   /\ ItemDone(Append(new_articles, Article(u, u, dt)),
                               mine, Entry(dt, "built", TRUE),
                               0, 0, "article", TRUE)
                \/ ItemDone(Append(new_articles, Article(u, u, dt)),
                            update_headline_url(mine, url_title(u), u, clock),
                            Entry(dt, "built", FALSE), 0, 0, "article", FALSE)

\* LAM, WLA: build the article from the URL and its title; no page visit.
PremarkItem(free) ==
    LET u == todo[idx]
        mine == store[source]
        nodate == [date |-> "none", days |-> 0]
    IN  \/ ItemDone(Append(new_articles, Article(u, u, nodate)), mine,
                    Entry(nodate, "built", FALSE), 0, 0, page, FALSE)
        \/ /\ free                       \* _validate_article is false
           /\ ItemDone(new_articles, mine, Entry(nodate, "invalid", FALSE),
                       0, 0, page, FALSE)

\* One iteration of the processing loop.
ProcessItem(faultPositions) ==
    /\ pc = "loop"
    /\ idx <= Len(todo)
    /\ LET free == idx \in faultPositions
       IN  IF IsVision(source) THEN VisionItem(free)
           ELSE IF source = Bauwelt THEN BauweltItem(free)
           ELSE PremarkItem(free)
    /\ UNCHANGED <<source, clock, tracker, llm, cands, new_all, todo, exit,
                   published, seen0, marked, dropped, submitted, connects,
                   closes>>
    /\ UNCHANGED callVars

\* The end-of-run store of all discovered identifiers, the statistics upload
\* and the return.
StoreAll ==
    /\ pc = "store"
    /\ pc' = "done"
    /\ page' = ClosedPage
    /\ page_closes' = ClosesAtExit
    /\ IF IsPremark(source)
       THEN /\ exit' \in {"ok", "err_stats"}
            /\ UNCHANGED <<store, marked, submitted, trackerFault>>
       ELSE \/ /\ exit' = "err_store"    \* store_headlines raised
               /\ trackerFault' = TRUE
               /\ UNCHANGED <<store, marked, submitted>>
            \/ /\ store' = [store EXCEPT ![source] =
                      store_headlines(@, StoredAtEnd, clock)]
               /\ marked' = [marked EXCEPT ![source] =
                      @ \cup Range(StoredAtEnd)]
               /\ submitted' = submitted \cup Range(StoredAtEnd)
               /\ exit' \in (IF source \in {Bauwelt, Identity}
                             THEN {"ok", "err_stats"} ELSE {"ok"})
               /\ UNCHANGED trackerFault
    /\ UNCHANGED <<source, clock, tracker, llm, cands, new_all, todo, idx,
                   new_articles, skipped_old, skipped_no_link, published,
                   seen0, log, dropped, connects, closes>>
    /\ UNCHANGED callVars

\* close(): if self.tracker: await self.tracker.close(); self.tracker = None.
\* Nothing to close when no tracker exists.
Close ==
    /\ pc \in {"idle", "done"}
    /\ closes < MaxCloses
    /\ closes' = closes + 1
    /\ tracker' = "none"
    /\ connects' = 0
    /\ UNCHANGED <<source, store, clock, llm, pc, page, page_closes, cands,
                   new_all, todo,
                   idx, new_articles, skipped_old, skipped_no_link, exit,
                   published, seen0, marked, log, trackerFault, dropped,
                   submitted>>
    /\ UNCHANGED callVars

\* Another source's run stores identifiers under its own source id.
OtherSourceStore ==
    /\ pc = "idle"
    /\ LET o == OtherSource(source)
           ids == Asc(MaxIds)
       IN  /\ Seen(o) = {}
           /\ store' = [store EXCEPT ![o] = store_headlines(@, ids, clock)]
           /\ marked' = [marked EXCEPT ![o] = @ \cup Range(ids)]
    /\ UNCHANGED <<source, clock, tracker, llm, pc, page, page_closes, cands,
                   new_all,
                   todo, idx, new_articles, skipped_old, skipped_no_link,
                   exit, published, seen0, log, trackerFault, dropped,
                   submitted, connects, closes>>
    /\ UNCHANGED callVars

Next ==
    \/ BeginRun
    \/ LoadPage(SmallListings(source))
    \/ Filter
    \/ ProcessItem(FaultPositions)
    \/ StoreAll
    \/ Close
    \/ OtherSourceStore

Spec == Init /\ [][Next]_vars

NextBurst ==
    \/ BeginRun
    \/ LoadPage(BurstListings(source))
    \/ Filter
    \/ ProcessItem(BurstFaultPositions)
    \/ StoreAll
    \/ Close
    \/ OtherSourceStore

SpecBurst == Init /\ [][NextBurst]_vars

\* ------------------------------------------------------------ strings
\* A string is a sequence of one-character strings.
DigitChars == <<"0", "1", "2", "3", "4", "5", "6", "7", "8", "9">>

IsDigit(c) == \E i \in DOMAIN DigitChars : DigitChars[i] = c

DigitValue(c) == (CHOOSE i \in DOMAIN DigitChars : DigitChars[i] = c) - 1

LowerChars == <<"a", "b", "c", "d", "e", "f", "g", "h", "i", "j", "k", "l", "m",
                "n", "o", "p", "q", "r", "s", "t", "u", "v", "w", "x", "y", "z">>

UpperChars == <<"A", "B", "C", "D", "E", "F", "G", "H", "I", "J", "K", "L", "M",
                "N", "O", "P", "Q", "R", "S", "T", "U", "V", "W", "X", "Y", "Z">>

\* str.upper(), per character
UpperChar(c) ==
    IF \E i \in DOMAIN LowerChars : LowerChars[i] = c
    THEN UpperChars[CHOOSE i \in DOMAIN LowerChars : LowerChars[i] = c]
    ELSE c

StrUpper(s) == [i \in DOMAIN s |-> UpperChar(s[i])]

IsSpace(c) == c = " "

RECURSIVE LStrip(_)
LStrip(s) == IF s # <<>> /\ IsSpace(Head(s)) THEN LStrip(Tail(s)) ELSE s

RECURSIVE RStrip(_)
RStrip(s) ==
    IF s # <<>> /\ IsSpace(s[Len(s)]) THEN RStrip(SubSeq(s, 1, Len(s) - 1))
    ELSE s

\* str.strip()
Strip(s) == RStrip(LStrip(s))

\* re.search(r'\d+', s).group(0): the first maximal run of digits, <<>> when
\* there is no match.
FirstDigitRun(s) ==
    IF \A i \in DOMAIN s : ~IsDigit(s[i]) THEN <<>>
    ELSE LET a == CHOOSE i \in DOMAIN s :
                     IsDigit(s[i]) /\ \A j \in 1..(i - 1) : ~IsDigit(s[j])
             b == CHOOSE i \in a..Len(s) :
                     /\ \A j \in a..i : IsDigit(s[j])
                     /\ i = Len(s) \/ ~IsDigit(s[i + 1])
         IN  SubSeq(s, a, b)

RECURSIVE ParseInt(_)
\* int() of a string of digits
ParseInt(s) ==
    IF s = <<>> THEN 0
    ELSE 10 * ParseInt(SubSeq(s, 1, Len(s) - 1)) + DigitValue(s[Len(s)])

AllDigits(s) == s # <<>> /\ \A i \in DOMAIN s : IsDigit(s[i])

\* ------------------------------------------ _find_headline_in_html_with_ai
\* item['index'] of the containers collected from the page.
ContainerIndexes == 0..MaxIds

NoMatch == [returned |-> TRUE, matched |-> FALSE, index |-> 0]

Match(k) == [returned |-> TRUE, matched |-> TRUE, index |-> k]

\* The reply handling of the matcher: strip and upper-case, "NONE", the first
\* number of the reply, the container of that index.
ParseMatcherReply(reply) ==
    LET response_clean == StrUpper(Strip(reply))
    IN  IF response_clean = <<"N", "O", "N", "E">> THEN NoMatch
        ELSE LET m == FirstDigitRun(response_clean)
             IN  IF m = <<>> THEN NoMatch
                 ELSE LET selected_index == ParseInt(m)
                      IN  IF selected_index \in ContainerIndexes
                          THEN Match(selected_index)
                          ELSE NoMatch

\* Characters of the AI replies tried.
ReplyChars == {"1", "2", "n", "N", "O", "E", " "}

Replies == UNION {[1..k -> ReplyChars] : k \in 0..MaxReplyLen}

MatcherFn == "_find_headline_in_html_with_ai"

InitMatcher ==
    /\ ScraperInit
    /\ IsVision(source)
    /\ fn = MatcherFn
    /\ arg \in Replies
    /\ result = Pending

\* The AI reply arrives and is turned into a container, or into None.
MatcherReturns ==
    /\ fn = MatcherFn
    /\ ~result.returned
    /\ result' = ParseMatcherReply(arg)
    /\ UNCHANGED <<fn, arg>>
    /\ UNCHANGED scraperVars

NextMatcher == MatcherReturns

SpecMatcher == InitMatcher /\ [][NextMatcher]_vars

\* ------------------------------------------------------------- properties
\* The run has computed its new identifiers.
Filtered ==
    \/ pc \in {"loop", "store"}
    \/ pc = "done" /\ exit \in {"nonew", "ok", "err_store", "err_stats"}

\* The run went through the loop and the end-of-run store and returned.
Completed == pc = "done" /\ exit = "ok"

\* C1, as stated: the new identifiers of a run are exactly the candidates
\* never passed to store_headlines / mark_as_seen for the source, in order.
\* (Read before the run's own store calls, for the scrapers that store last.)
C1_NewIsNeverMarked ==
    (pc \in {"loop", "store"} /\ ~IsPremark(source))
        => new_all = SelectSeq(cands, LAMBDA x : x \notin marked[source])

\* C1, amended: the new identifiers of a run are exactly the candidates that
\* had no record under the run's own source when the run began, in candidate
\* order, whatever other sources have stored; every identifier passed to
\* store_headlines / mark_as_seen has a record.
C1_NewIsNotRecorded ==
    /\ Filtered => new_all = SelectSeq(cands, LAMBDA x : x \notin seen0)
    /\ \A s \in ScraperIds : marked[s] \subseteq Seen(s)

\* A run that excluded a recorded candidate and kept a new one which another
\* source has already stored.
C1_Witness ==
    /\ pc = "loop"
    /\ new_all # <<>>
    /\ Len(new_all) < Len(cands)
    /\ new_all[1] \in Seen(OtherSource(source))

\* C2: a run never returns a link that an earlier run, whose end-of-run store
\* completed, already returned.
C2_NeverReturnedTwice == Links(Returned) \cap published = {}

\* C3: a run that completes classified as new exactly the candidates absent
\* from the seen set it started with, and leaves the seen set equal to that
\* set plus the candidates (C1 after the first run, C1 \cup C2 after the second).
C3_SeenIsUnionOfCandidates ==
    Completed =>
        /\ new_all = SelectSeq(cands, LAMBDA x : x \notin seen0)
        /\ Seen(source) = seen0 \cup Range(cands)

\* C4: storing identifiers that are already recorded changes nothing: the
\* record of an identifier seen before the run still has one row and its
\* first-seen time after the run's store calls.
C4_StoreTwiceIsIdempotent ==
    /\ \A s \in ScraperIds : \A x \in DOMAIN store[s] : store[s][x].rows = 1
    /\ \A x \in seen0 :
          /\ x \in Seen(source)
          /\ store[source][x].firstSeenAt < clock

\* A run whose end-of-run store re-submitted identifiers recorded earlier.
C4_Witness ==
    /\ Completed
    /\ ~IsPremark(source)
    /\ seen0 \cap Range(cands) # {}
    /\ Range(cands) \ seen0 # {}

\* The run entered the processing loop.
Looped == idx >= 1

\* The identifiers of the items that reached new_articles.append, in order.
BuiltIds ==
    LET F[i \in 0..Len(log)] ==
            IF i = 0 THEN <<>>
            ELSE IF log[i].stage = "built" THEN Append(F[i - 1], todo[i])
            ELSE F[i - 1]
    IN  F[Len(log)]

ArticleIds == [i \in DOMAIN new_articles |-> new_articles[i].id]

\* C5: when a run finds more new identifiers than the cap, the items it
\* processes are exactly the first Cap(source) new identifiers in discovery
\* order; no run processes or returns more than the cap.
C5_CapEnforced ==
    /\ Len(log) <= Cap(source)
    /\ Len(new_articles) <= Cap(source)
    /\ Len(Returned) <= Cap(source)
    /\ Looped =>
          /\ Len(todo) <= Cap(source)
          /\ Len(new_all) > Cap(source) => Len(todo) = Cap(source)
          /\ \A i \in DOMAIN todo : todo[i] = new_all[i]
    /\ (Looped /\ pc \in {"store", "done"}) => Len(log) = Len(todo)

\* A completed run that found more new identifiers than the cap and returned
\* exactly Cap(source) articles.
C5_Witness ==
    /\ Completed
    /\ Len(new_all) > Cap(source)
    /\ Len(Returned) = Cap(source)

C7_TrackerFailureDistinct ==
    (pc = "done" /\ exit \in {"err_query", "err_store"})
        => (Raised \/ Returned # <<>>)

\* C8: fetch_articles never raises: whether the tracker connection, the AI
\* model configuration, the page creation, the page load or an AI call
\* fails, it returns a list.
C8_NeverRaises == pc = "done" => ~Raised

\* C9: an item whose processing raises does not end the loop: every capped
\* candidate gets its iteration before the end-of-run store, and the items
\* that were built are the ones in the returned list.
C9_ItemFailureContinues ==
    /\ (Looped /\ pc \in {"store", "done"}) => Len(log) = Len(todo)
    /\ pc = "loop" => Len(log) = idx - 1 /\ idx <= Len(todo)
    /\ ArticleIds = BuiltIds
    /\ Completed => Len(Returned) = Len(BuiltIds)

\* A completed run whose first item raised and whose second item was built
\* and returned.
C9_Witness ==
    /\ Completed
    /\ Len(log) >= 2
    /\ log[1].stage = "raised"
    /\ log[2].stage = "built"
    /\ Returned # <<>>
    /\ Returned[Len(Returned)].id = todo[2]

C11_MissingDateIncluded ==
    /\ \A i \in DOMAIN log :
          log[i].date = "none" => log[i].stage \in {"invalid", "built"}
    /\ Len(new_articles) = Cardinality({i \in DOMAIN log : log[i].stage = "built"})
    /\ Completed =>
          \A i \in DOMAIN log :
             (log[i].date = "none" /\ log[i].stage = "built") =>
                 \E j \in DOMAIN Returned :
                    Returned[j].id = todo[i] /\ Returned[j].date = "none"

\* A completed run of a date-filtering scraper that returned an item whose
\* page showed no publish date.
C11_Witness ==
    /\ Completed
    /\ ~IsPremark(source)
    /\ \E i \in DOMAIN log :
          /\ log[i].date = "none"
          /\ log[i].stage = "built"
          /\ \E j \in DOMAIN Returned :
                Returned[j].id = todo[i] /\ Returned[j].date = "none"

C13_NoNewStoresAll ==
    (pc = "done" /\ exit = "nonew") =>
        /\ submitted = Range(cands)
        /\ Returned = <<>>

\* C14: the matcher yields a link only when the whole reply (surrounding
\* blanks aside) is one number that is the index of a container; NONE, a
\* number inside other text, several numbers and the index of no container
\* all yield no link.
C14_OnlyBareIndexAccepted ==
    (fn = MatcherFn /\ result.returned) =>
        LET s == Strip(arg)
        IN  IF AllDigits(s) /\ ParseInt(s) \in ContainerIndexes
            THEN result = Match(ParseInt(s))
            ELSE ~result.matched

\* The identifier under which item i's link is recorded.
LinkKey(i) == IF source = Bauwelt THEN url_title(todo[i]) ELSE todo[i]

None == "None"

\* Truth value of an optional string.
Truthy(v) == v # None /\ v # ""

\* The registry, in registration order; names and domains as characters.
SOURCES ==
    <<
       [id |-> "archdaily",
        name |-> <<"A", "r", "c", "h", "D", "a", "i", "l", "y">>,
        domains |-> << <<"a", "r", "c", "h", "d", "a", "i", "l", "y", ".", "c", "o", "m">>,
                       <<"w", "w", "w", ".", "a", "r", "c", "h", "d", "a", "i", "l", "y", ".", "c", "o", "m">> >>,
        rss_url |-> "https://feeds.feedburner.com/Archdaily"],
       [id |-> "dezeen",
        name |-> <<"D", "e", "z", "e", "e", "n">>,
        domains |-> << <<"d", "e", "z", "e", "e", "n", ".", "c", "o", "m">>,
                       <<"w", "w", "w", ".", "d", "e", "z", "e", "e", "n", ".", "c", "o", "m">> >>,
        rss_url |-> "https://www.dezeen.com/feed/"],
       [id |-> "designboom",
        name |-> <<"D", "e", "s", "i", "g", "n", "b", "o", "o", "m">>,
        domains |-> << <<"d", "e", "s", "i", "g", "n", "b", "o", "o", "m", ".", "c", "o", "m">>,
                       <<"w", "w", "w", ".", "d", "e", "s", "i", "g", "n", "b", "o", "o", "m", ".", "c", "o", "m">> >>,
        rss_url |-> "https://www.designboom.com/feed/"],
       [id |-> "domus",
        name |-> <<"D", "o", "m", "u", "s">>,
        domains |-> << <<"d", "o", "m", "u", "s", "w", "e", "b", ".", "i", "t">>,
                       <<"w", "w", "w", ".", "d", "o", "m", "u", "s", "w", "e", "b", ".", "i", "t">> >>,
        rss_url |-> "https://www.domusweb.it/en.rss.xml"],
       [id |-> "architizer",
        name |-> <<"A", "r", "c", "h", "i", "t", "i", "z", "e", "r">>,
        domains |-> << <<"a", "r", "c", "h", "i", "t", "i", "z", "e", "r", ".", "c", "o", "m">>,
                       <<"w", "w", "w", ".", "a", "r", "c", "h", "i", "t", "i", "z", "e", "r", ".", "c", "o", "m">> >>,
        rss_url |-> None],
       [id |-> "archpaper",
        name |-> <<"T", "h", "e", " ", "A", "r", "c", "h", "i", "t", "e", "c", "t", "'", "s", " ", "N", "e", "w", "s", "p", "a", "p", "e", "r">>,
        domains |-> << <<"a", "r", "c", "h", "p", "a", "p", "e", "r", ".", "c", "o", "m">>,
                       <<"w", "w", "w", ".", "a", "r", "c", "h", "p", "a", "p", "e", "r", ".", "c", "o", "m">> >>,
        rss_url |-> "https://www.archpaper.com/feed/"],
       [id |-> "architectural_digest",
        name |-> <<"A", "r", "c", "h", "i", "t", "e", "c", "t", "u", "r", "a", "l", " ", "D", "i", "g", "e", "s", "t">>,
        domains |-> << <<"a", "r", "c", "h", "i", "t", "e", "c", "t", "u", "r", "a", "l", "d", "i", "g", "e", "s", "t", ".", "c", "o", "m">>,
                       <<"w", "w", "w", ".", "a", "r", "c", "h", "i", "t", "e", "c", "t", "u", "r", "a", "l", "d", "i", "g", "e", "s", "t", ".", "c", "o", "m">> >>,
        rss_url |-> "https://www.architecturaldigest.com/feed/rss"],
       [id |-> "architect_magazine",
        name |-> <<"A", "r", "c", "h", "i", "t", "e", "c", "t", " ", "M", "a", "g", "a", "z", "i", "n", "e">>,
        domains |-> << <<"a", "r", "c", "h", "i", "t", "e", "c", "t", "m", "a", "g", "a", "z", "i", "n", "e", ".", "c", "o", "m">>,
                       <<"w", "w", "w", ".", "a", "r", "c", "h", "i", "t", "e", "c", "t", "m", "a", "g", "a", "z", "i", "n", "e", ".", "c", "o", "m">> >>,
        rss_url |-> "https://www.architectmagazine.com/rss"],
       [id |-> "wallpaper",
        name |-> <<"W", "a", "l", "l", "p", "a", "p", "e", "r">>,
        domains |-> << <<"w", "a", "l", "l", "p", "a", "p", "e", "r", ".", "c", "o", "m">>,
                       <<"w", "w", "w", ".", "w", "a", "l", "l", "p", "a", "p", "e", "r", ".", "c", "o", "m">> >>,
        rss_url |-> "https://www.wallpaper.com/rss"],
       [id |-> "afasia",
        name |-> <<"A", "f", "a", "s", "i", "a">>,
        domains |-> << <<"a", "f", "a", "s", "i", "a", "a", "r", "c", "h", "z", "i", "n", "e", ".", "c", "o", "m">>,
                       <<"w", "w", "w", ".", "a", "f", "a", "s", "i", "a", "a", "r", "c", "h", "z", "i", "n", "e", ".", "c", "o", "m">> >>,
        rss_url |-> "https://afasiaarchzine.com/feed/"],
       [id |-> "divisare",
        name |-> <<"D", "i", "v", "i", "s", "a", "r", "e">>,
        domains |-> << <<"d", "i", "v", "i", "s", "a", "r", "e", ".", "c", "o", "m">>,
                       <<"w", "w", "w", ".", "d", "i", "v", "i", "s", "a", "r", "e", ".", "c", "o", "m">> >>,
        rss_url |-> "https://divisare.com/feed"],
       [id |-> "curbed",
        name |-> <<"C", "u", "r", "b", "e", "d">>,
        domains |-> << <<"c", "u", "r", "b", "e", "d", ".", "c", "o", "m">>,
                       <<"w", "w", "w", ".", "c", "u", "r", "b", "e", "d", ".", "c", "o", "m">> >>,
        rss_url |-> "https://www.curbed.com/rss/index.xml"],
       [id |-> "dwell",
        name |-> <<"D", "w", "e", "l", "l">>,
        domains |-> << <<"d", "w", "e", "l", "l", ".", "c", "o", "m">>,
                       <<"w", "w", "w", ".", "d", "w", "e", "l", "l", ".", "c", "o", "m">> >>,
        rss_url |-> "https://www.dwell.com/rss"]
    >>

\* str.lower(), per character
LowerChar(c) ==
    IF \E i \in DOMAIN UpperChars : UpperChars[i] = c
    THEN LowerChars[CHOOSE i \in DOMAIN UpperChars : UpperChars[i] = c]
    ELSE c

StrLower(s) == [i \in DOMAIN s |-> LowerChar(s[i])]

\* str.capitalize()
Capitalize(s) ==
    [i \in DOMAIN s |-> IF i = 1 THEN UpperChar(s[i]) ELSE LowerChar(s[i])]

\* str.find(c): the first position of c, 0 when there is none (Python: -1).
Find(s, c) ==
    IF \A i \in DOMAIN s : s[i] # c THEN 0
    ELSE CHOOSE i \in DOMAIN s : s[i] = c /\ \A j \in 1..(i - 1) : s[j] # c

StartsWith(s, p) == Len(s) >= Len(p) /\ SubSeq(s, 1, Len(p)) = p

RECURSIVE Replace(_, _)
\* str.replace(old, ""): every occurrence of old is removed, left to right.
Replace(s, old) ==
    IF Len(s) < Len(old) THEN s
    ELSE IF StartsWith(s, old) THEN Replace(SubSeq(s, Len(old) + 1, Len(s)), old)
    ELSE <<Head(s)>> \o Replace(Tail(s), old)

RECURSIVE Split(_, _)
\* str.split(sep) for a one-character separator: never an empty list.
Split(s, sep) ==
    LET i == Find(s, sep)
    IN  IF i = 0 THEN <<s>>
        ELSE <<SubSeq(s, 1, i - 1)>> \o Split(SubSeq(s, i + 1, Len(s)), sep)

IsLetter(c) ==
    \E i \in DOMAIN LowerChars : LowerChars[i] = c \/ UpperChars[i] = c

\* urllib.parse.scheme_chars
IsSchemeChar(c) == IsLetter(c) \/ IsDigit(c) \/ c \in {"+", "-", "."}

\* urlparse(url): the scheme is split off, then "//" opens the network
\* location, which ends at the first "/", "?" or "#"; unbalanced brackets in
\* it raise ValueError.
urlparse(url) ==
    LET i == Find(url, ":")
        rest == IF /\ i > 1
                   /\ IsLetter(url[1])
                   /\ \A j \in 1..(i - 1) : IsSchemeChar(url[j])
                THEN SubSeq(url, i + 1, Len(url))
                ELSE url
        after == SubSeq(rest, 3, Len(rest))
        ends == {j \in DOMAIN after : after[j] \in {"/", "?", "#"}}
        delim == IF ends = {} THEN Len(after) + 1
                 ELSE CHOOSE j \in ends : \A k \in ends : j <= k
        netloc == IF StartsWith(rest, <<"/", "/">>)
                  THEN SubSeq(after, 1, delim - 1)
                  ELSE <<>>
        has(c) == \E j \in DOMAIN netloc : netloc[j] = c
    IN  [raised |-> has("[") # has("]"), netloc |-> netloc]

\* _DOMAIN_TO_SOURCE.get(domain): the table is filled in registration order,
\* a later source overwriting an earlier one.
DomainToSource(domain) ==
    LET hits == {i \in DOMAIN SOURCES :
                    \E k \in DOMAIN SOURCES[i].domains :
                        StrLower(SOURCES[i].domains[k]) = domain}
    IN  IF hits = {} THEN None
        ELSE SOURCES[CHOOSE i \in hits : \A j \in hits : j <= i].id

get_source_id(url) ==
    IF url = <<>> THEN None
    ELSE LET parsed == urlparse(url)
         IN  IF parsed.raised THEN None
             ELSE DomainToSource(StrLower(parsed.netloc))

Source == <<"S", "o", "u", "r", "c", "e">>

SourceNamed(source_id) ==
    SOURCES[CHOOSE i \in DOMAIN SOURCES : SOURCES[i].id = source_id]

get_source_name(url) ==
    IF url = <<>> THEN Source
    ELSE LET source_id == get_source_id(url)
         IN  IF source_id # None /\ \E i \in DOMAIN SOURCES : SOURCES[i].id = source_id
             THEN SourceNamed(source_id).name
             ELSE LET parsed == urlparse(url)
                  IN  IF parsed.raised THEN Source
                      ELSE LET domain == Replace(StrLower(parsed.netloc),
                                                 <<"w", "w", "w", ".">>)
                               parts == Split(domain, ".")
                           IN  IF parts # <<>> THEN Capitalize(parts[1])
                               ELSE Source

RssEntry(config) ==
    [id |-> config.id, name |-> config.name, rss_url |-> config.rss_url]

\* A listing that forgets the feed test.
AllSourcesListed == [i \in DOMAIN SOURCES |-> RssEntry(SOURCES[i])]

get_all_rss_sources ==
    LET HasFeed(config) == Truthy(config.rss_url)
    IN  [i \in DOMAIN SelectSeq(SOURCES, HasFeed) |->
            RssEntry(SelectSeq(SOURCES, HasFeed)[i])]

\* URLs tried: an optional scheme, up to MaxLabels host labels joined by
\* dots, an optional port, an optional path.
Schemes == {<<>>, <<"h", "t", "t", "p", "s", ":", "/", "/">>}

Labels == {<<"w", "w", "w">>,
           <<"W", "W", "W">>,
           <<"a", "r", "c", "h", "d", "a", "i", "l", "y">>,
           <<"A", "r", "c", "h", "D", "a", "i", "l", "y">>,
           <<"c", "o", "m">>,
           <<"u", "n", "k", "n", "o", "w", "n">>,
           <<"[">>}

RECURSIVE Hosts(_)
Hosts(n) ==
    IF n = 0 THEN {<<>>}
    ELSE Hosts(n - 1) \cup Labels
         \cup {h \o <<".">> \o l : h \in Hosts(n - 1) \ {<<>>}, l \in Labels}

Ports == {<<>>, <<":", "4", "4", "3">>}

Paths == {<<>>, <<"/", "x">>}

Urls == {s \o h \o p \o q : s \in Schemes, h \in Hosts(MaxLabels), p \in Ports, q \in Paths}

SourceFns == {"get_source_id", "get_source_name", "get_all_rss_sources"}

\* The registry functions do not touch a scraper; one scraper stands by.
InitSources ==
    /\ ScraperInit
    /\ source = Bauwelt
    /\ fn \in SourceFns
    /\ arg \in (IF fn = "get_all_rss_sources" THEN {<<>>} ELSE Urls)
    /\ result = Pending

Returns(v) == [returned |-> TRUE, value |-> v]

SourceIdReturns ==
    /\ fn = "get_source_id"
    /\ ~result.returned
    /\ result' = Returns(get_source_id(arg))
    /\ UNCHANGED <<fn, arg>>
    /\ UNCHANGED scraperVars

SourceNameReturns ==
    /\ fn = "get_source_name"
    /\ ~result.returned
    /\ result' = Returns(get_source_name(arg))
    /\ UNCHANGED <<fn, arg>>
    /\ UNCHANGED scraperVars

AllRssSourcesReturns ==
    /\ fn = "get_all_rss_sources"
    /\ ~result.returned
    /\ result' = Returns(get_all_rss_sources)
    /\ UNCHANGED <<fn, arg>>
    /\ UNCHANGED scraperVars

NextSources ==
    \/ SourceIdReturns
    \/ SourceNameReturns
    \/ AllRssSourcesReturns

SpecSources == InitSources /\ [][NextSources]_vars

\* ------------------------------------------------- properties of the registry
\* The host of a URL: the authority after "//", without the port.
HostOf(url) ==
    LET i == Find(url, ":")
        rest == IF i > 0 /\ StartsWith(SubSeq(url, i + 1, Len(url)), <<"/", "/">>)
                THEN SubSeq(url, i + 3, Len(url))
                ELSE <<>>
        ends == {j \in DOMAIN rest : rest[j] \in {"/", ":", "?", "#"}}
    IN  IF ends = {} THEN rest
        ELSE SubSeq(rest, 1, (CHOOSE j \in ends : \A k \in ends : j <= k) - 1)

WellFormedHost(h) ==
    h # <<>> /\ \A i \in DOMAIN h : IsLetter(h[i]) \/ IsDigit(h[i]) \/ h[i] \in {".", "-"}

\* The sources that registered host h, case ignored.
Registrants(h) ==
    {i \in DOMAIN SOURCES :
        \E k \in DOMAIN SOURCES[i].domains :
            StrLower(SOURCES[i].domains[k]) = StrLower(h)}

\* C16: get_source_id returns the source that registered the URL's host,
\* case ignored, and None for an unregistered host, an empty string or a
\* malformed URL.
C16_HostResolvesToRegistrant ==
    (fn = "get_source_id" /\ result.returned) =>
        LET h == HostOf(arg)
        IN  IF WellFormedHost(h) /\ Registrants(h) # {}
            THEN \E i \in Registrants(h) : result.value = SOURCES[i].id
            ELSE result.value = None

\* The host without one leading "www.".
WithoutLeadingWww(h) ==
    IF StartsWith(h, <<"w", "w", "w", ".">>) THEN SubSeq(h, 5, Len(h)) ELSE h

\* C17: get_source_name returns the registered name of a resolved URL,
\* otherwise the capitalised first label of the host without a leading
\* "www.", and "Source" when the URL is empty or has no parsable host; the
\* result is never empty.
C17_NameOrFirstLabelOrSource ==
    (fn = "get_source_name" /\ result.returned) =>
        LET h == StrLower(urlparse(arg).netloc)
        IN  /\ result.value # <<>>
            /\ IF get_source_id(arg) # None
               THEN result.value = SourceNamed(get_source_id(arg)).name
               ELSE IF arg = <<>> \/ urlparse(arg).raised \/ h = <<>>
               THEN result.value = Source
               ELSE result.value = Capitalize(Split(WithoutLeadingWww(h), ".")[1])

\* C18: get_all_rss_sources lists exactly the sources that have a feed URL,
\* once each, with id, name and rss_url, in registration order.
C18_FeedsInRegistrationOrder ==
    (fn = "get_all_rss_sources" /\ result.returned) =>
        LET out == result.value
            fed == {i \in DOMAIN SOURCES : SOURCES[i].rss_url # None}
        IN  /\ Len(out) = Cardinality(fed)
            /\ \A j \in DOMAIN out :
                  \E i \in fed :
                     /\ out[j] = [id |-> SOURCES[i].id, name |-> SOURCES[i].name,
                                  rss_url |-> SOURCES[i].rss_url]
                     /\ Cardinality({k \in fed : k <= i}) = j

\* The listing was returned and left out a registered source without a feed.
C18_Witness ==
    /\ fn = "get_all_rss_sources"
    /\ result.returned
    /\ result.value # <<>>
    /\ \E i \in DOMAIN SOURCES :
          /\ SOURCES[i].rss_url = None
          /\ \A j \in DOMAIN result.value : result.value[j].id # SOURCES[i].id

\* C19: over any sequence of fetch_articles and close calls, connect() is
\* called at most once between two closes (a run that finds a tracker leaves
\* it alone), every close, on a scraper without a tracker too, leaves
\* tracker = None, and a run that starts without a tracker creates one.
C19_ConnectOncePerClose ==
    [][ /\ connects' <= 1
        /\ closes' > closes => (tracker' = "none" /\ pc' = pc /\ store' = store)
        /\ (clock' > clock /\ tracker = "none") =>
              (connects' = 1 /\ tracker' # "none")
        /\ (clock' > clock /\ tracker # "none") =>
              (connects' = connects /\ tracker' = tracker) ]_vars

\* Two closes in a row after a run that had connected the tracker.
C19_Witness ==
    /\ closes = 2
    /\ clock >= 1
    /\ exit # "raised_connect"
    /\ tracker = "none"
    /\ connects = 0

\* C20: an item whose publish-date string cannot be parsed is handled like an
\* item without a date in every scraper: it is never dropped for that reason,
\* and when the run completes its article is among those returned.
C20_ParseFailureIncluded ==
    /\ \A i \in DOMAIN log :
          log[i].date = "bad" => log[i].stage \in {"invalid", "built"}
    /\ Completed =>
          \A i \in DOMAIN log :
             (log[i].date = "bad" /\ log[i].stage = "built") =>
                 \E j \in DOMAIN Returned : Returned[j].id = todo[i]

\* C21: in the vision scrapers, whenever a loop iteration is about to invoke
\* the headline-to-link matcher, the browser page is the listing page.
C21_MatcherSeesListing ==
    (IsVision(source) /\ pc = "loop" /\ idx <= Len(todo)) => page = "listing"

\* The run marked identifier x as seen, built its article, and then failed
\* before returning (the statistics upload raised): [] was handed back.
LostAfterMark(x) ==
    /\ pc = "done"
    /\ exit = "err_stats"
    /\ x \in Range(ArticleIds)
    /\ x \in Seen(source)

ReturnedIds == {Returned[j].id : j \in DOMAIN Returned}

\* C22: an article whose identifier was marked seen by a run that failed
\* before returning it stays in the seen-set and is returned by no later
\* run: the failing run hands back [] with the identifier seen, the seen-set
\* a run starts from is never lost, and no run returns an identifier of the
\* seen-set it started from.  In LAM and WLA every new URL is marked before
\* the list is built, so the failing run leaves all its new URLs seen.
C22_LostAfterMarkNeverReturned ==
    /\ \A x \in Ids :
          (pc = "done" /\ exit = "err_stats" /\ x \in Range(ArticleIds)) =>
              LostAfterMark(x) /\ Returned = <<>>
    /\ (IsPremark(source) /\ pc = "done" /\ exit = "err_stats") =>
          Range(new_all) \subseteq Seen(source)
    /\ seen0 \subseteq Seen(source)
    /\ ReturnedIds \cap seen0 = {}

\* A run of LAM or WLA marked its new URLs, built an article, and failed
\* before returning it.
C22_Witness ==
    /\ IsPremark(source)
    /\ new_articles # <<>>
    /\ \E x \in Ids : LostAfterMark(x)
    /\ Range(new_all) \subseteq Seen(source)
    /\ Returned = <<>>

\* Loop positions the run skipped because the matcher found no link or
\* because the iteration raised before an article was built.
SkippedAt == {i \in DOMAIN log : log[i].stage \in {"nolink", "raised"}}

C24_ReturnedLinksDistinct ==
    \A i, j \in DOMAIN Returned :
        Returned[i].link = Returned[j].link => i = j

\* ------------------------------------- pattern scrapers: link extraction
\* s contains p (p in s)
StrContains(s, p) ==
    \E i \in 0..(Len(s) - Len(p)) : SubSeq(s, i + 1, i + Len(p)) = p

EndsWith(s, p) == Len(s) >= Len(p) /\ SubSeq(s, Len(s) - Len(p) + 1, Len(s)) = p

RECURSIVE RStripChar(_, _)
\* str.rstrip(c)
RStripChar(s, c) ==
    IF s # <<>> /\ s[Len(s)] = c THEN RStripChar(SubSeq(s, 1, Len(s) - 1), c)
    ELSE s

RECURSIVE LStripChar(_, _)
LStripChar(s, c) == IF s # <<>> /\ Head(s) = c THEN LStripChar(Tail(s), c) ELSE s

\* str.strip(c)
StripChar(s, c) == RStripChar(LStripChar(s, c), c)

\* str.count(c)
CountChar(s, c) == Cardinality({i \in DOMAIN s : s[i] = c})

\* str.replace(a, b) for single characters
ReplaceChar(s, a, b) == [i \in DOMAIN s |-> IF s[i] = a THEN b ELSE s[i]]

\* str.title(): the first letter of every run of letters in upper case, the
\* other letters in lower case.
Title(s) ==
    [i \in DOMAIN s |->
        IF i = 1 \/ ~IsLetter(s[i - 1]) THEN UpperChar(s[i]) ELSE LowerChar(s[i])]

\* urlparse(href).path: what follows the scheme and the network location, up
\* to the query or the fragment.
UrlPath(url) ==
    LET i == Find(url, ":")
        rest == IF /\ i > 1
                   /\ IsLetter(url[1])
                   /\ \A j \in 1..(i - 1) : IsSchemeChar(url[j])
                THEN SubSeq(url, i + 1, Len(url))
                ELSE url
        tail == IF StartsWith(rest, <<"/", "/">>)
                THEN SubSeq(rest, 3 + Len(urlparse(url).netloc), Len(rest))
                ELSE rest
        ends == {j \in DOMAIN tail : tail[j] \in {"?", "#"}}
    IN  IF ends = {} THEN tail
        ELSE SubSeq(tail, 1, (CHOOSE j \in ends : \A k \in ends : j <= k) - 1)

PatternScrapers == {Bauwelt, LAM, WLA}

\* The scheme and host of base_url; urljoin(base_url, path) for a path that
\* starts with one slash.
Origin(s) ==
    IF s = LAM THEN <<"h", "t", "t", "p", "s", ":", "/", "/", "l", "a", "n", "d", "s", "c", "a", "p", "e", "a", "r", "c", "h", "i", "t", "e", "c", "t", "u", "r", "e", "m", "a", "g", "a", "z", "i", "n", "e", ".", "o", "r", "g">>
    ELSE IF s = WLA THEN <<"h", "t", "t", "p", "s", ":", "/", "/", "w", "o", "r", "l", "d", "l", "a", "n", "d", "s", "c", "a", "p", "e", "a", "r", "c", "h", "i", "t", "e", "c", "t", ".", "c", "o", "m">>
    ELSE <<"h", "t", "t", "p", "s", ":", "/", "/", "w", "w", "w", ".", "b", "a", "u", "w", "e", "l", "t", ".", "d", "e">>

urljoin(s, path) == Origin(s) \o path

\* The domain an internal link's netloc must contain.
SiteDomain(s) ==
    IF s = LAM THEN <<"l", "a", "n", "d", "s", "c", "a", "p", "e", "a", "r", "c", "h", "i", "t", "e", "c", "t", "u", "r", "e", "m", "a", "g", "a", "z", "i", "n", "e", ".", "o", "r", "g">>
    ELSE <<"w", "o", "r", "l", "d", "l", "a", "n", "d", "s", "c", "a", "p", "e", "a", "r", "c", "h", "i", "t", "e", "c", "t", ".", "c", "o", "m">>

\* href.startswith(('#', 'javascript:', 'mailto:')) or not href
SpecialHref(href) ==
    \/ href = <<>>
    \/ StartsWith(href, <<"#">>)
    \/ StartsWith(href, <<"j", "a", "v", "a", "s", "c", "r", "i", "p", "t", ":">>)
    \/ StartsWith(href, <<"m", "a", "i", "l", "t", "o", ":">>)

IsSlugChar(c) == IsLetter(c) \/ IsDigit(c) \/ c = "-"

\* [a-z0-9-]+ under re.IGNORECASE
IsSlug(s) == s # <<>> /\ \A i \in DOMAIN s : IsSlugChar(s[i])

\* 20\d{2}
IsYear(s) == Len(s) = 4 /\ s[1] = "2" /\ s[2] = "0" /\ IsDigit(s[3]) /\ IsDigit(s[4])

\* \d{2}
IsTwoDigits(s) == Len(s) = 2 /\ IsDigit(s[1]) /\ IsDigit(s[2])

\* \d{4}
IsFourDigits(s) == Len(s) = 4 /\ \A i \in 1..4 : IsDigit(s[i])

\* LAM EXCLUDED_PATTERNS: each is a literal prefix.
LAM_EXCLUDED_PATTERNS ==
    {<<"/", "a", "b", "o", "u", "t">>,
     <<"/", "a", "l", "l", "-", "a", "r", "t", "i", "c", "l", "e", "s">>,
     <<"/", "p", "r", "o", "j", "e", "c", "t", "-">>,
     <<"/", "s", "e", "a", "r", "c", "h">>,
     <<"/", "c", "o", "n", "t", "a", "c", "t">>,
     <<"/", "c", "d", "n", "-", "c", "g", "i", "/">>,
     <<"/", "g", "e", "t", "C", "o", "n", "t", "e", "n", "t", "A", "s", "s", "e", "t">>,
     <<"?">>,
     <<"#">>}

\* LAM _is_excluded_path: re.match(pattern, path, re.IGNORECASE)
LamIsExcludedPath(path) ==
    \E p \in LAM_EXCLUDED_PATTERNS : StartsWith(StrLower(path), StrLower(p))

\* LAM ARTICLE_PATTERNS: /YYYY/MM/slug or /YYYY/slug, one optional slash at
\* the end.
LamMatchesArticlePattern(path) ==
    LET parts == Split(path, "/")
        n == Len(parts)
        body == IF n >= 2 /\ parts[n] = <<>> THEN SubSeq(parts, 1, n - 1) ELSE parts
    IN  /\ body[1] = <<>>
        /\ \/ Len(body) = 4 /\ IsYear(body[2]) /\ IsTwoDigits(body[3]) /\ IsSlug(body[4])
           \/ Len(body) = 3 /\ IsYear(body[2]) /\ IsSlug(body[3])

\* WLA EXCLUDED_PATH_PATTERNS that are literal prefixes.
WLA_EXCLUDED_PREFIXES ==
    {<<"/", "l", "a", "n", "d", "s", "c", "a", "p", "e", "-", "a", "r", "c", "h", "i", "t", "e", "c", "t", "/">>,
     <<"/", "j", "o", "b", "/">>,
     <<"/", "j", "o", "b", "-", "l", "i", "s", "t", "i", "n", "g", "/">>,
     <<"/", "c", "a", "t", "e", "g", "o", "r", "y", "/">>,
     <<"/", "s", "h", "o", "p", "/">>,
     <<"/", "c", "a", "r", "t", "/">>,
     <<"/", "c", "h", "e", "c", "k", "o", "u", "t", "/">>,
     <<"/", "a", "b", "o", "u", "t", "/">>,
     <<"/", "c", "o", "n", "t", "a", "c", "t", "-", "u", "s", "/">>,
     <<"/", "a", "d", "v", "e", "r", "t", "i", "s", "e", "/">>,
     <<"/", "s", "u", "b", "m", "i", "s", "s", "i", "o", "n", "s", "/">>,
     <<"/", "s", "u", "p", "p", "o", "r", "t", "-", "w", "l", "a", "/">>,
     <<"/", "s", "u", "p", "p", "o", "r", "t", "e", "r", "s", "/">>,
     <<"/", "p", "r", "o", "d", "u", "c", "t", "/">>,
     <<"/", "d", "e", "s", "i", "g", "n", "-", "d", "i", "s", "c", "i", "p", "l", "i", "n", "e", "/">>,
     <<"/", "e", "d", "i", "t", "o", "r", "-", "p", "o", "s", "t", "s", "/">>,
     <<"/", "r", "e", "v", "i", "e", "w", "/">>,
     <<"/", "s", "t", "u", "d", "e", "n", "t", "/">>,
     <<"/", "g", "e", "n", "e", "r", "a", "l", "/">>,
     <<"/", "p", "r", "i", "v", "a", "c", "y", "-", "p", "o", "l", "i", "c", "y">>,
     <<"/", "d", "i", "s", "c", "l", "a", "i", "m", "e", "r", "/">>,
     <<"/", "r", "e", "f", "u", "n", "d", "s", "-", "p", "o", "l", "i", "c", "y", "/">>,
     <<"/", "i", "n", "d", "i", "v", "i", "d", "u", "a", "l", "-", "m", "e", "m", "b", "e", "r", "s", "h", "i", "p", "/">>,
     <<"/", "d", "e", "s", "i", "g", "n", "-", "f", "i", "r", "m", "-", "m", "e", "m", "b", "e", "r", "s", "h", "i", "p", "/">>,
     <<"/", "p", "r", "o", "d", "u", "c", "t", "-", "s", "e", "r", "v", "i", "c", "e", "-", "m", "e", "m", "b", "e", "r", "s", "h", "i", "p", "/">>}

\* ^/\d{4}/\d{2}/$
IsDateArchive(path) ==
    LET parts == Split(path, "/")
    IN  /\ Len(parts) = 4
        /\ parts[1] = <<>>
        /\ IsFourDigits(parts[2])
        /\ IsTwoDigits(parts[3])
        /\ parts[4] = <<>>

\* ^/[^/]+/$
IsSingleSegment(path) ==
    LET parts == Split(path, "/")
    IN  Len(parts) = 3 /\ parts[1] = <<>> /\ parts[2] # <<>> /\ parts[3] = <<>>

\* WLA _is_excluded_path over EXCLUDED_PATH_PATTERNS
WlaIsExcludedPath(path) ==
    \/ \E p \in WLA_EXCLUDED_PREFIXES : StartsWith(StrLower(path), p)
    \/ IsDateArchive(path)
    \/ IsSingleSegment(path)

COMPANY_PROFILE_SLUGS ==
    {<<"u", "r", "b", "a", "s", "t", "y", "l", "e">>,
     <<"m", "m", "c", "i", "t", "e">>,
     <<"s", "t", "r", "e", "e", "t", "l", "i", "f", "e">>,
     <<"c", "r", "a", "c", "k", "n", "e", "l", "l">>,
     <<"v", "e", "s", "t", "r", "e">>,
     <<"l", "a", "n", "d", "s", "c", "a", "p", "e", "-", "f", "o", "r", "m", "s">>,
     <<"m", "a", "g", "l", "i", "n">>,
     <<"s", "c", "e", "n", "i", "c">>,
     <<"b", "e", "n", "o", "y">>,
     <<"f", "e", "l", "i", "x", "x">>,
     <<"h", "a", "s", "s", "e", "l", "l">>,
     <<"s", "a", "s", "a", "k", "i">>,
     <<"s", "t", "o", "s", "s">>,
     <<"a", "r", "c", "a", "d", "i", "a">>,
     <<"a", "r", "u", "p">>,
     <<"r", "i", "o", "s">>}

_is_company_profile(slug) == StrLower(StripChar(slug, "/")) \in COMPANY_PROFILE_SLUGS

\* hyphen_count >= 4
_looks_like_article_title(slug) == CountChar(StripChar(slug, "/"), "-") >= 4

\* _is_valid_article_url of scraper s
_is_valid_article_url(s, path) ==
    IF s = LAM
    THEN /\ StartsWith(path, <<"/">>)
         /\ ~LamIsExcludedPath(path)
         /\ LamMatchesArticlePattern(path)
    ELSE LET slug == StripChar(path, "/")
         IN  /\ StartsWith(path, <<"/">>)
             /\ ~WlaIsExcludedPath(path)
             /\ slug # <<>>
             /\ Find(slug, "?") = 0
             /\ Find(slug, "#") = 0
             /\ ~_is_company_profile(slug)
             /\ Find(slug, "/") = 0
             /\ _looks_like_article_title(slug)

\* The path as each scraper normalises it before the test.
NormalisedPath(s, path) ==
    IF s = LAM
    THEN IF StartsWith(path, <<"/">>) THEN path ELSE <<"/">> \o path
    ELSE LET p == IF EndsWith(path, <<"/">>) THEN path ELSE path \o <<"/">>
         IN  IF StartsWith(p, <<"/">>) THEN p ELSE <<"/">> \o p

NoTitle == [text |-> "", slug |-> <<>>]

\* The title of a link: its text or a heading near it when that has ten
\* characters or more, else the slug in title case.
TitleOf(a, path) ==
    IF a.text # "" THEN [text |-> a.text, slug |-> <<>>]
    ELSE LET parts == Split(StripChar(path, "/"), "/")
         IN  [text |-> "", slug |-> Title(ReplaceChar(parts[Len(parts)], "-", " "))]

\* Bauwelt ARTICLE_PATTERN.findall: the match inside one href, <<>> if none.
BauweltMatch(href) ==
    LET pre == <<"/", "r", "u", "b", "r", "i", "k", "e", "n", "/", "b", "a", "u", "t", "e", "n", "/">>
        suf == <<".", "h", "t", "m", "l">>
        starts == {i \in DOMAIN href : StartsWith(SubSeq(href, i, Len(href)), pre)}
    IN  IF starts = {} \/ ~EndsWith(href, suf) THEN <<>>
        ELSE LET i == CHOOSE j \in starts : \A k \in starts : j <= k
             IN  IF Len(href) - i + 1 > Len(pre) + Len(suf)
                 THEN SubSeq(href, i, Len(href))
                 ELSE <<>>

\* The URL of a path that has been normalised: tested, joined to base_url
\* and (LAM) stripped of its final slash.
AcceptedUrl(s, path) ==
    IF ~_is_valid_article_url(s, path) THEN <<>>
    ELSE IF s = LAM THEN RStripChar(urljoin(s, path), "/")
    ELSE urljoin(s, path)

\* LAM, WLA: special links, external links and links without a path are
\* passed over.
InternalUrl(s, href, netloc, path) ==
    IF SpecialHref(href) THEN <<>>
    ELSE IF netloc # <<>> /\ ~StrContains(netloc, SiteDomain(s)) THEN <<>>
    ELSE IF path = <<>> THEN <<>>
    ELSE AcceptedUrl(s, NormalisedPath(s, path))

BauweltUrl(match) == IF match = <<>> THEN <<>> ELSE urljoin(Bauwelt, match)

\* The absolute URL one link contributes, <<>> when the link is passed over.
LinkUrl(s, a) ==
    IF s = Bauwelt THEN BauweltUrl(BauweltMatch(a.href))
    ELSE InternalUrl(s, a.href, urlparse(a.href).netloc, UrlPath(a.href))

LinkTitle(s, a) ==
    IF s = Bauwelt THEN NoTitle
    ELSE TitleOf(a, NormalisedPath(s, UrlPath(a.href)))

\* if full_url not in seen_urls: ... articles.append((full_url, title))
AddLink(articles, full_url, title) ==
    IF full_url = <<>> \/ \E k \in DOMAIN articles : articles[k].url = full_url
    THEN articles
    ELSE Append(articles, [url |-> full_url, title |-> title])

RECURSIVE ExtractLoop(_, _, _)
\* LAM, WLA: the loop over the links, with seen_urls the URLs of articles.
ExtractLoop(s, links, articles) ==
    IF links = <<>> THEN articles
    ELSE ExtractLoop(s, Tail(links),
                     AddLink(articles, LinkUrl(s, Head(links)),
                             LinkTitle(s, Head(links))))

\* The orders in which a set can be listed.
Listings(S) ==
    {q \in [1..Cardinality(S) -> S] : \A i, j \in DOMAIN q : q[i] = q[j] => i = j}

\* The results _extract_article_links can give.  Bauwelt collects the URLs
\* in a set and returns list(urls): any order of the set.
_extract_article_links(s, links) ==
    IF s = Bauwelt
    THEN LET urls == {LinkUrl(s, links[i]) : i \in DOMAIN links} \ {<<>>}
         IN  {[i \in DOMAIN q |-> [url |-> q[i], title |-> NoTitle]] :
                 q \in Listings(urls)}
    ELSE {ExtractLoop(s, links, <<>>)}

\* Links of the pages tried.
Hrefs(s) ==
    IF s = LAM THEN
    {<<"/", "2", "0", "2", "5", "/", "a", "-", "b">>,
     <<"/", "2", "0", "2", "5", "/", "a", "-", "b", "/">>,
     <<"h", "t", "t", "p", "s", ":", "/", "/", "l", "a", "n", "d", "s", "c", "a", "p", "e", "a", "r", "c", "h", "i", "t", "e", "c", "t", "u", "r", "e", "m", "a", "g", "a", "z", "i", "n", "e", ".", "o", "r", "g", "/", "2", "0", "2", "5", "/", "a", "-", "b">>,
     <<"/", "2", "0", "2", "5", "/", "0", "6", "/", "c", "-", "d">>,
     <<"/", "a", "b", "o", "u", "t">>,
     <<"#", "t", "o", "p">>}
    ELSE IF s = WLA THEN
    {<<"/", "a", "-", "b", "-", "c", "-", "d", "-", "e", "/">>,
     <<"/", "a", "-", "b", "-", "c", "-", "d", "-", "e">>,
     <<"h", "t", "t", "p", "s", ":", "/", "/", "w", "o", "r", "l", "d", "l", "a", "n", "d", "s", "c", "a", "p", "e", "a", "r", "c", "h", "i", "t", "e", "c", "t", ".", "c", "o", "m", "/", "a", "-", "b", "-", "c", "-", "d", "-", "e", "/">>,
     <<"/", "u", "r", "b", "a", "s", "t", "y", "l", "e", "/">>,
     <<"/", "c", "a", "t", "e", "g", "o", "r", "y", "/", "a", "-", "b", "-", "c", "-", "d", "-", "e", "/">>}
    ELSE
    {<<"/", "r", "u", "b", "r", "i", "k", "e", "n", "/", "b", "a", "u", "t", "e", "n", "/", "a", ".", "h", "t", "m", "l">>,
     <<"h", "t", "t", "p", "s", ":", "/", "/", "w", "w", "w", ".", "b", "a", "u", "w", "e", "l", "t", ".", "d", "e", "/", "r", "u", "b", "r", "i", "k", "e", "n", "/", "b", "a", "u", "t", "e", "n", "/", "a", ".", "h", "t", "m", "l">>,
     <<"/", "r", "u", "b", "r", "i", "k", "e", "n", "/", "b", "a", "u", "t", "e", "n", "/", "b", ".", "h", "t", "m", "l">>,
     <<"/", "r", "u", "b", "r", "i", "k", "e", "n", "/", "w", "o", "h", "n", "e", "n", "/", "c", ".", "h", "t", "m", "l">>}

LinkTexts(s) == IF s = Bauwelt THEN {""} ELSE {"", "Title one of the link", "Title two of the link"}

Anchors(s) == [href : Hrefs(s), text : LinkTexts(s)]

Pages(s) == UNION {[1..k -> Anchors(s)] : k \in 0..MaxAnchors}

\* Paths given to WLA's _is_valid_article_url.
WlaPaths ==
    {<<"/", "a", "-", "b", "-", "c", "-", "d", "-", "e", "/">>,
    <<"/", "a", "-", "b", "-", "c", "-", "d", "-", "e">>,
    <<"/", "a", "-", "b", "/">>,
    <<"/", "u", "r", "b", "a", "s", "t", "y", "l", "e", "/">>,
    <<"/", "c", "a", "t", "e", "g", "o", "r", "y", "/", "a", "-", "b", "-", "c", "-", "d", "-", "e", "/">>,
    <<"/", "x", "/", "a", "-", "b", "-", "c", "-", "d", "-", "e", "/">>,
    <<"/", "l", "a", "n", "d", "s", "c", "a", "p", "e", "-", "f", "o", "r", "m", "s", "/">>,
    <<"a", "-", "b", "-", "c", "-", "d", "-", "e", "/">>,
    <<"/", "2", "0", "2", "6", "/", "0", "1", "/">>}

InitExtract ==
    /\ ScraperInit
    /\ \/ /\ source \in PatternScrapers
          /\ fn = "_extract_article_links"
          /\ arg \in Pages(source)
       \/ /\ source = WLA
          /\ fn = "_is_valid_article_url"
          /\ arg \in WlaPaths
    /\ result = Pending

ExtractReturns ==
    /\ fn = "_extract_article_links"
    /\ ~result.returned
    /\ \E v \in _extract_article_links(source, arg) : result' = Returns(v)
    /\ UNCHANGED <<fn, arg>>
    /\ UNCHANGED scraperVars

IsValidArticleUrlReturns ==
    /\ fn = "_is_valid_article_url"
    /\ ~result.returned
    /\ result' = Returns(_is_valid_article_url(source, arg))
    /\ UNCHANGED <<fn, arg>>
    /\ UNCHANGED scraperVars

NextExtract ==
    \/ ExtractReturns
    \/ IsValidArticleUrlReturns

SpecExtract == InitExtract /\ [][NextExtract]_vars

\* ------------------------------------------ properties of link extraction
\* The position of the first link of the page that contributes URL u.
FirstOccurrence(s, links, u) ==
    CHOOSE i \in DOMAIN links :
        LinkUrl(s, links[i]) = u /\ \A j \in 1..(i - 1) : LinkUrl(s, links[j]) # u

\* C25: the extraction returns each normalised absolute URL of the page once,
\* in the order of first occurrence, with the title of the first occurrence.
C25_FirstOccurrenceWins ==
    (fn = "_extract_article_links" /\ result.returned) =>
        LET out == result.value
            urls == {LinkUrl(source, arg[i]) : i \in DOMAIN arg} \ {<<>>}
        IN  /\ {out[k].url : k \in DOMAIN out} = urls
            /\ \A k, l \in DOMAIN out : out[k].url = out[l].url => k = l
            /\ \A k, l \in DOMAIN out :
                  k < l => FirstOccurrence(source, arg, out[k].url)
                             < FirstOccurrence(source, arg, out[l].url)
            /\ \A k \in DOMAIN out :
                  out[k].title =
                     LinkTitle(source, arg[FirstOccurrence(source, arg, out[k].url)])

\* A path /slug/ of one segment whose slug has four hyphens or more, is no
\* company profile and lies under no excluded section.
IsArticlePath(path) ==
    LET slug == StripChar(path, "/")
    IN  /\ IsSingleSegment(path)
        /\ CountChar(slug, "-") >= 4
        /\ StrLower(slug) \notin COMPANY_PROFILE_SLUGS
        /\ ~\E p \in WLA_EXCLUDED_PREFIXES : StartsWith(StrLower(path), p)

\* C26: World Landscape Architect accepts every path /slug/ that is an
\* article path, and _extract_article_links returns the URL of a link to one.
C26_ArticlePathAccepted ==
    /\ (source = WLA /\ fn = "_is_valid_article_url" /\ result.returned) =>
          (IsArticlePath(arg) => result.value)
    /\ (source = WLA /\ fn = "_extract_article_links" /\ result.returned) =>
          \A i \in DOMAIN arg :
             LET path == NormalisedPath(WLA, UrlPath(arg[i].href))
             IN  (/\ ~SpecialHref(arg[i].href)
                  /\ urlparse(arg[i].href).netloc = <<>>
                  /\ IsArticlePath(path)) =>
                     \E k \in DOMAIN result.value :
                        result.value[k].url = urljoin(WLA, path)


\* ------------------------------ the matcher's prompt (Domus, Metalocus)
\* for item in html_context[:15]
PROMPT_CONTAINERS == 15

\* Numbers of containers collected from the pages tried.
ContainerCounts == {3, 15, 23}

\* html_context of a page with n containers that all hold a link: the
\* items' index fields, in document order.
HtmlContext(n) == [i \in 1..n |-> i - 1]

\* The index fields of the containers written into the prompt.
Presented(html_context) ==
    {html_context[i] : i \in {j \in DOMAIN html_context : j <= PROMPT_CONTAINERS}}

\* _find_headline_in_html_with_ai after the page was evaluated: the prompt
\* is built from the first containers, the reply is parsed, and the item of
\* the selected index is looked up in the whole of html_context.
FindInContext(html_context, reply) ==
    LET response_clean == StrUpper(Strip(reply))
    IN  IF html_context = <<>> THEN NoMatch
        ELSE IF response_clean = <<"N", "O", "N", "E">> THEN NoMatch
        ELSE LET m == FirstDigitRun(response_clean)
             IN  IF m = <<>> THEN NoMatch
                 ELSE IF \E k \in DOMAIN html_context : html_context[k] = ParseInt(m)
                 THEN Match(ParseInt(m))
                 ELSE NoMatch

PromptScrapers == {Domus, Metalocus}

InitPrompt ==
    /\ ScraperInit
    /\ source \in PromptScrapers
    /\ fn = MatcherFn
    /\ arg \in [reply : Replies, html_context : {HtmlContext(n) : n \in ContainerCounts}]
    /\ result = Pending

PromptMatcherReturns ==
    /\ fn = MatcherFn
    /\ ~result.returned
    /\ result' = FindInContext(arg.html_context, arg.reply)
    /\ UNCHANGED <<fn, arg>>
    /\ UNCHANGED scraperVars

NextPrompt == PromptMatcherReturns

SpecPrompt == InitPrompt /\ [][NextPrompt]_vars

\* C27: in Domus and Metalocus the container the matcher selects is one of
\* the containers written into the prompt (the first 15); the index of a
\* container beyond them is not accepted as a match.
C27_MatchWasPresented ==
    (fn = MatcherFn /\ result.returned /\ result.matched) =>
        result.index \in Presented(arg.html_context)


\* --------------------------------------------------- the counts of a run
\* Loop positions that ended in the given outcome.
Outcome(stage) == {i \in DOMAIN log : log[i].stage = stage}

\* C28: at the end of every run the returned articles are no more than the
\* new identifiers after the cap, which are no more than 10 and no more than
\* the new identifiers, which are no more than the candidates discovered;
\* returned + skipped-too-old + skipped-no-link is no more than the new
\* identifiers after the cap, each loop position having one outcome only.
C28_CountsConsistent ==
    pc = "done" =>
        /\ Len(Returned) <= Len(new_articles)
        /\ Len(new_articles) <= Len(todo)
        /\ Len(todo) <= 10
        /\ Len(todo) <= Len(new_all)
        /\ Len(new_all) <= Len(cands)
        /\ Len(new_articles) + skipped_old + skipped_no_link <= Len(todo)
        /\ Len(log) <= Len(todo)
        /\ Len(new_articles) = Cardinality(Outcome("built"))
        /\ skipped_old \in {0, Cardinality(Outcome("old"))}
        /\ skipped_no_link \in {0, Cardinality(Outcome("nolink"))}

\* A completed run over a burst: the cap cut the new identifiers to 10, one
\* was skipped as too old, one for lack of a link, and the others returned.
C28_Witness ==
    /\ Completed
    /\ Len(new_all) > Len(todo)
    /\ Len(todo) = 10
    /\ skipped_old = 1
    /\ skipped_no_link = 1
    /\ Len(Returned) = 8


\* ------------------------------------------------------ the browser page
\* The run has created a page and has not left the inner try block.
PageInUse == pc \in {"filter", "loop", "store"} /\ ~IsPremark(source)

\* C29: once fetch_articles has created a page, the page is closed exactly
\* once on every exit path: it is open and not yet closed while the run is
\* inside the try block, and at the end of the run page.close() has been
\* called once if a page was created and not at all otherwise.
C29_PageClosedOnce ==
    /\ PageInUse => page \in {"listing", "article"} /\ page_closes = 0
    /\ pc = "done" => page \in {"none", "closed"}
    /\ (pc = "done" /\ page = "closed") => page_closes = 1
    /\ (pc = "done" /\ page = "none") => page_closes = 0
    /\ (pc = "done" /\ exit \notin {"raised_connect", "raised_llm", "err_page"}
          /\ ~IsPremark(source)) => page = "closed"

\* A run whose end-of-run store raised after an item had failed on the
\* article page: the page was closed, once.
C29_Witness ==
    /\ pc = "done"
    /\ exit = "err_store"
    /\ source \in {Bauwelt, Identity, Metalocus}
    /\ \E i \in DOMAIN log : log[i].raised
    /\ page = "closed"
    /\ page_closes = 1


\* ------------------------------------ prompts/translate.py: the JSON reply
\* str.strip() and \s of re: blanks, tabs, line ends, form feeds.
IsWhite(c) == c \in {" ", "\t", "\n", "\r", "\f"}

RECURSIVE LStripWhite(_)
LStripWhite(s) == IF s # <<>> /\ IsWhite(Head(s)) THEN LStripWhite(Tail(s)) ELSE s

RECURSIVE RStripWhite(_)
RStripWhite(s) ==
    IF s # <<>> /\ IsWhite(s[Len(s)]) THEN RStripWhite(SubSeq(s, 1, Len(s) - 1))
    ELSE s

\* text.strip()
StripWhite(s) == RStripWhite(LStripWhite(s))

\* str.rfind(c): the last position of c, 0 when there is none (Python: -1).
RFind(s, c) ==
    IF \A i \in DOMAIN s : s[i] # c THEN 0
    ELSE CHOOSE i \in DOMAIN s : s[i] = c /\ \A j \in (i + 1)..Len(s) : s[j] # c

\* The backtick character, which cannot be written in a string here.
Backtick == "<BT>"

Fence == <<Backtick, Backtick, Backtick>>

\* The first re.sub: an opening fence of three backticks, the word json
\* after it if there is one, and the white space that follows.
DropOpeningFence(text) ==
    IF ~StartsWith(text, Fence) THEN text
    ELSE IF StartsWith(text, Fence \o <<"j", "s", "o", "n">>)
    THEN LStripWhite(Drop(text, 7))
    ELSE LStripWhite(Drop(text, 3))

\* The second re.sub: a closing fence at the very end and the white space
\* before it.
DropClosingFence(text) ==
    IF EndsWith(text, Fence) THEN RStripWhite(Take(text, Len(text) - 3)) ELSE text

\* text[start:end+1] when both braces are found and end > start
BetweenBraces(text, start, end) ==
    IF start # 0 /\ end # 0 /\ end > start THEN SubSeq(text, start, end) ELSE text

ObjectText(text) == BetweenBraces(text, Find(text, "{"), RFind(text, "}"))

clean_json_response(text) ==
    ObjectText(StripWhite(DropClosingFence(DropOpeningFence(StripWhite(text)))))

\* ---- json.loads
\* A JSON value: its type t, the characters s of a string, the members m of
\* an object in the order read.
JsonValue(t, s, m) == [t |-> t, s |-> s, m |-> m]

Scalar(t) == JsonValue(t, <<>>, <<>>)

\* The outcome of scanning at one position: the value and the position
\* after it, or a failure (JSONDecodeError).
Scanned(val, pos) == [ok |-> TRUE, val |-> val, pos |-> pos]

ScanFailed == [ok |-> FALSE, val |-> Scalar("none"), pos |-> 0]

\* json.decoder.WHITESPACE
IsJsonWhite(c) == c \in {" ", "\t", "\n", "\r"}

\* WHITESPACE.match(s, i).end()
SkipWhite(x, i) ==
    CHOOSE j \in i..(Len(x) + 1) :
        /\ \A k \in i..(j - 1) : IsJsonWhite(x[k])
        /\ j = Len(x) + 1 \/ ~IsJsonWhite(x[j])

\* The position after the digits that begin at i.
DigitsEnd(x, i) ==
    CHOOSE j \in i..(Len(x) + 1) :
        /\ \A k \in i..(j - 1) : IsDigit(x[k])
        /\ j = Len(x) + 1 \/ ~IsDigit(x[j])

At(x, i, c) == i <= Len(x) /\ x[i] = c

LiteralAt(x, i, lit) ==
    i + Len(lit) - 1 <= Len(x) /\ SubSeq(x, i, i + Len(lit) - 1) = lit

\* (0|[1-9]\d*) from i: the position after it, 0 when there is no match.
IntegerEnd(x, i) ==
    IF At(x, i, "0") THEN i + 1
    ELSE IF DigitsEnd(x, i) > i THEN DigitsEnd(x, i)
    ELSE 0

\* (\.\d+)? from i
FractionEnd(x, i) ==
    IF At(x, i, ".") /\ DigitsEnd(x, i + 1) > i + 1 THEN DigitsEnd(x, i + 1) ELSE i

ExponentDigits(x, i) == IF At(x, i, "+") \/ At(x, i, "-") THEN i + 1 ELSE i

\* ([eE][+-]?\d+)? from i
ExponentEnd(x, i) ==
    IF (At(x, i, "e") \/ At(x, i, "E"))
       /\ DigitsEnd(x, ExponentDigits(x, i + 1)) > ExponentDigits(x, i + 1)
    THEN DigitsEnd(x, ExponentDigits(x, i + 1))
    ELSE i

AfterInteger(x, j) ==
    IF j = 0 THEN 0 ELSE ExponentEnd(x, FractionEnd(x, j))

\* json.scanner.NUMBER_RE.match(x, i).end(), 0 when there is no match.
NumberEnd(x, i) == AfterInteger(x, IntegerEnd(x, IF At(x, i, "-") THEN i + 1 ELSE i))

Literals ==
    <<[text |-> <<"n", "u", "l", "l">>, t |-> "null"],
      [text |-> <<"t", "r", "u", "e">>, t |-> "bool"],
      [text |-> <<"f", "a", "l", "s", "e">>, t |-> "bool"],
      [text |-> <<"N", "a", "N">>, t |-> "num"],
      [text |-> <<"I", "n", "f", "i", "n", "i", "t", "y">>, t |-> "num"],
      [text |-> <<"-", "I", "n", "f", "i", "n", "i", "t", "y">>, t |-> "num"]>>

\* The character a backslash escape stands for (json.decoder.BACKSLASH).
\* \b is written <BS>: it is no white space.
Unescaped(e) ==
    CASE e = "n" -> "\n"
      [] e = "t" -> "\t"
      [] e = "r" -> "\r"
      [] e = "f" -> "\f"
      [] e = "b" -> "<BS>"
      [] OTHER -> e

IsHex(c) == IsDigit(c) \/ c \in {"a", "b", "c", "d", "e", "f", "A", "B", "C", "D", "E", "F"}

RECURSIVE ScanString(_, _, _)
\* json.decoder.py_scanstring (strict): from the character after the opening
\* quote to the closing quote.  A \uXXXX escape is kept as one character,
\* written <U>.
ScanString(x, j, acc) ==
    IF j > Len(x) THEN ScanFailed
    ELSE IF x[j] = "\"" THEN Scanned(JsonValue("str", acc, <<>>), j + 1)
    ELSE IF x[j] \in {"\n", "\t", "\r", "\f"} THEN ScanFailed
    ELSE IF x[j] # "\\" THEN ScanString(x, j + 1, Append(acc, x[j]))
    ELSE IF j + 1 > Len(x) THEN ScanFailed
    ELSE IF x[j + 1] \in {"\"", "\\", "/", "b", "f", "n", "r", "t"}
    THEN ScanString(x, j + 2, Append(acc, Unescaped(x[j + 1])))
    ELSE IF x[j + 1] = "u" /\ j + 5 <= Len(x) /\ \A k \in (j + 2)..(j + 5) : IsHex(x[k])
    THEN ScanString(x, j + 6, Append(acc, "<U>"))
    ELSE ScanFailed

RECURSIVE ParseValue(_, _)
RECURSIVE ParseMembers(_, _, _)
RECURSIVE ParseElements(_, _)

\* After a member: "}" ends the object, "," opens the next member.
MemberNext(x, j, acc) ==
    IF At(x, j, "}") THEN Scanned(JsonValue("obj", <<>>, acc), j + 1)
    ELSE IF At(x, j, ",") THEN ParseMembers(x, SkipWhite(x, j + 1), acc)
    ELSE ScanFailed

MemberValue(x, key, v, acc) ==
    IF ~v.ok THEN ScanFailed
    ELSE MemberNext(x, SkipWhite(x, v.pos), Append(acc, [key |-> key, val |-> v.val]))

MemberColon(x, key, j, acc) ==
    IF ~At(x, j, ":") THEN ScanFailed
    ELSE MemberValue(x, key, ParseValue(x, SkipWhite(x, j + 1)), acc)

MemberKey(x, k, acc) ==
    IF ~k.ok THEN ScanFailed ELSE MemberColon(x, k.val.s, SkipWhite(x, k.pos), acc)

\* json.decoder.JSONObject: the members of an object, from a key on.
ParseMembers(x, j, acc) ==
    IF ~At(x, j, "\"") THEN ScanFailed
    ELSE MemberKey(x, ScanString(x, j + 1, <<>>), acc)

ElementNext(x, j) ==
    IF At(x, j, "]") THEN Scanned(Scalar("list"), j + 1)
    ELSE IF At(x, j, ",") THEN ParseElements(x, SkipWhite(x, j + 1))
    ELSE ScanFailed

ElementValue(x, v) == IF ~v.ok THEN ScanFailed ELSE ElementNext(x, SkipWhite(x, v.pos))

\* json.decoder.JSONArray: the elements of a list, from a value on.  Only
\* the type of a list is kept.
ParseElements(x, j) == ElementValue(x, ParseValue(x, j))

OpenObject(x, j) ==
    IF At(x, j, "}") THEN Scanned(JsonValue("obj", <<>>, <<>>), j + 1)
    ELSE ParseMembers(x, j, <<>>)

OpenList(x, j) ==
    IF At(x, j, "]") THEN Scanned(Scalar("list"), j + 1) ELSE ParseElements(x, j)

NumberOrLiteral(x, i, n) ==
    IF \E l \in {1, 2, 3} : LiteralAt(x, i, Literals[l].text)
    THEN LET l == CHOOSE l \in {1, 2, 3} : LiteralAt(x, i, Literals[l].text)
         IN  Scanned(Scalar(Literals[l].t), i + Len(Literals[l].text))
    ELSE IF n # 0 THEN Scanned(Scalar("num"), n)
    ELSE IF \E l \in {4, 5, 6} : LiteralAt(x, i, Literals[l].text)
    THEN LET l == CHOOSE l \in {4, 5, 6} : LiteralAt(x, i, Literals[l].text)
         IN  Scanned(Scalar(Literals[l].t), i + Len(Literals[l].text))
    ELSE ScanFailed

\* json.scanner.py_make_scanner._scan_once
ParseValue(x, i) ==
    IF i > Len(x) THEN ScanFailed
    ELSE IF x[i] = "\"" THEN ScanString(x, i + 1, <<>>)
    ELSE IF x[i] = "{" THEN OpenObject(x, SkipWhite(x, i + 1))
    ELSE IF x[i] = "[" THEN OpenList(x, SkipWhite(x, i + 1))
    ELSE NumberOrLiteral(x, i, NumberEnd(x, i))

\* JSONDecoder.decode: one value, white space around it, nothing after it.
Decoded(x, v) ==
    IF v.ok /\ SkipWhite(x, v.pos) = Len(x) + 1 THEN v ELSE ScanFailed

json_loads(x) == Decoded(x, ParseValue(x, SkipWhite(x, 1)))

\* ---- parse_translation_response
TARGET_LANGUAGES ==
    {<<"e", "s">>, <<"f", "r">>, <<"p", "t", "-", "b", "r">>, <<"r", "u">>}

EmptyDict == JsonValue("obj", <<>>, <<>>)

\* d.get(key, {}) of a dict read from JSON: the last member of that key.
DictGet(d, key) ==
    IF \A i \in DOMAIN d.m : d.m[i].key # key THEN EmptyDict
    ELSE d.m[CHOOSE i \in DOMAIN d.m :
                /\ d.m[i].key = key
                /\ \A j \in (i + 1)..Len(d.m) : d.m[j].key # key].val

\* if not isinstance(translations, dict): translations = {}
AsDict(v) == IF v.t = "obj" THEN v ELSE EmptyDict

\* {k: v for k, v in translations.items()
\*     if k in expected_keys and isinstance(v, str) and v.strip()}
Filtered_translations(d) ==
    LET keep == {k \in TARGET_LANGUAGES :
                    /\ \E i \in DOMAIN d.m : d.m[i].key = k
                    /\ DictGet(d, k).t = "str"
                    /\ StripWhite(DictGet(d, k).s) # <<>>}
    IN  [k \in keep |-> DictGet(d, k).s]

NoTranslations == [k \in {} |-> <<>>]

Translations(raised, failed, headline, summary) ==
    [raised |-> raised, failed |-> failed, headline |-> headline, summary |-> summary]

\* The body of the try block once json.loads has returned: parsed.get raises
\* AttributeError on a value that is no dict, which no except clause names.
FromParsed(parsed) ==
    IF parsed.t # "obj"
    THEN Translations(TRUE, FALSE, NoTranslations, NoTranslations)
    ELSE Translations(FALSE, FALSE,
                      Filtered_translations(AsDict(DictGet(parsed, <<"h", "e", "a", "d", "l", "i", "n", "e">>))),
                      Filtered_translations(AsDict(DictGet(parsed, <<"s", "u", "m", "m", "a", "r", "y">>))))

\* except json.JSONDecodeError: empty dicts.
AfterLoads(v) ==
    IF ~v.ok THEN Translations(FALSE, TRUE, NoTranslations, NoTranslations)
    ELSE FromParsed(v.val)

parse_translation_response(response_text) ==
    AfterLoads(json_loads(clean_json_response(response_text)))

\* Replies of the translation model tried: JSON objects, other JSON values,
\* text that is no JSON and nothing, bare, fenced and inside other text.
Responses ==
    {<<"{", "\"", "h", "e", "a", "d", "l", "i", "n", "e", "\"", ":", "{", "\"", "e", "s", "\"", ":", "\"", "a", "\"", "}", ",", "\"", "s", "u", "m", "m", "a", "r", "y", "\"", ":", "{", "\"", "f", "r", "\"", ":", "\"", "b", "\"", "}", "}">>,
     <<Backtick, Backtick, Backtick, "j", "s", "o", "n", "\n", "{", "\"", "h", "e", "a", "d", "l", "i", "n", "e", "\"", ":", "{", "\"", "e", "s", "\"", ":", "\"", "a", "\"", "}", ",", "\"", "s", "u", "m", "m", "a", "r", "y", "\"", ":", "{", "\"", "f", "r", "\"", ":", "\"", "b", "\"", "}", "}", "\n", Backtick, Backtick, Backtick>>,
     <<Backtick, Backtick, Backtick, "{", "\"", "h", "e", "a", "d", "l", "i", "n", "e", "\"", ":", "{", "\"", "e", "s", "\"", ":", "\"", "a", "\"", "}", ",", "\"", "s", "u", "m", "m", "a", "r", "y", "\"", ":", "{", "\"", "f", "r", "\"", ":", "\"", "b", "\"", "}", "}", Backtick, Backtick, Backtick>>,
     <<" ", "{", "\"", "h", "e", "a", "d", "l", "i", "n", "e", "\"", ":", "{", "\"", "e", "s", "\"", ":", "\"", "a", "\"", "}", ",", "\"", "s", "u", "m", "m", "a", "r", "y", "\"", ":", "{", "\"", "f", "r", "\"", ":", "\"", "b", "\"", "}", "}", "\n">>,
     <<"H", "e", "r", "e", ":", " ", "{", "\"", "h", "e", "a", "d", "l", "i", "n", "e", "\"", ":", "{", "\"", "e", "s", "\"", ":", "\"", "a", "\"", "}", ",", "\"", "s", "u", "m", "m", "a", "r", "y", "\"", ":", "{", "\"", "f", "r", "\"", ":", "\"", "b", "\"", "}", "}">>,
     <<"{", "\"", "h", "e", "a", "d", "l", "i", "n", "e", "\"", ":", "{", "\"", "e", "s", "\"", ":", "\"", "a", "\"", "}", ",", "\"", "s", "u", "m", "m", "a", "r", "y", "\"", ":", "{", "\"", "f", "r", "\"", ":", "\"", "b", "\"", "}", "}", " ", "o", "k">>,
     <<"{", "\"", "h", "e", "a", "d", "l", "i", "n", "e", "\"", ":", "{", "\"", "e", "s", "\"", ":", "\"", " ", "\"", ",", "\"", "d", "e", "\"", ":", "\"", "x", "\"", ",", "\"", "r", "u", "\"", ":", "5", "}", ",", "\"", "s", "u", "m", "m", "a", "r", "y", "\"", ":", "\"", "s", "\"", "}">>,
     <<Backtick, Backtick, Backtick, "j", "s", "o", "n", "\n", "{", "\"", "h", "e", "a", "d", "l", "i", "n", "e", "\"", ":", "{", "\"", "e", "s", "\"", ":", "\"", " ", "\"", ",", "\"", "d", "e", "\"", ":", "\"", "x", "\"", ",", "\"", "r", "u", "\"", ":", "5", "}", ",", "\"", "s", "u", "m", "m", "a", "r", "y", "\"", ":", "\"", "s", "\"", "}", "\n", Backtick, Backtick, Backtick>>,
     <<Backtick, Backtick, Backtick, "{", "\"", "h", "e", "a", "d", "l", "i", "n", "e", "\"", ":", "{", "\"", "e", "s", "\"", ":", "\"", " ", "\"", ",", "\"", "d", "e", "\"", ":", "\"", "x", "\"", ",", "\"", "r", "u", "\"", ":", "5", "}", ",", "\"", "s", "u", "m", "m", "a", "r", "y", "\"", ":", "\"", "s", "\"", "}", Backtick, Backtick, Backtick>>,
     <<" ", "{", "\"", "h", "e", "a", "d", "l", "i", "n", "e", "\"", ":", "{", "\"", "e", "s", "\"", ":", "\"", " ", "\"", ",", "\"", "d", "e", "\"", ":", "\"", "x", "\"", ",", "\"", "r", "u", "\"", ":", "5", "}", ",", "\"", "s", "u", "m", "m", "a", "r", "y", "\"", ":", "\"", "s", "\"", "}", "\n">>,
     <<"H", "e", "r", "e", ":", " ", "{", "\"", "h", "e", "a", "d", "l", "i", "n", "e", "\"", ":", "{", "\"", "e", "s", "\"", ":", "\"", " ", "\"", ",", "\"", "d", "e", "\"", ":", "\"", "x", "\"", ",", "\"", "r", "u", "\"", ":", "5", "}", ",", "\"", "s", "u", "m", "m", "a", "r", "y", "\"", ":", "\"", "s", "\"", "}">>,
     <<"{", "\"", "h", "e", "a", "d", "l", "i", "n", "e", "\"", ":", "{", "\"", "e", "s", "\"", ":", "\"", " ", "\"", ",", "\"", "d", "e", "\"", ":", "\"", "x", "\"", ",", "\"", "r", "u", "\"", ":", "5", "}", ",", "\"", "s", "u", "m", "m", "a", "r", "y", "\"", ":", "\"", "s", "\"", "}", " ", "o", "k">>,
     <<"{", "\"", "h", "e", "a", "d", "l", "i", "n", "e", "\"", ":", "{", "\"", "p", "t", "-", "b", "r", "\"", ":", "\"", "a", "\"", "}", "}">>,
     <<Backtick, Backtick, Backtick, "j", "s", "o", "n", "\n", "{", "\"", "h", "e", "a", "d", "l", "i", "n", "e", "\"", ":", "{", "\"", "p", "t", "-", "b", "r", "\"", ":", "\"", "a", "\"", "}", "}", "\n", Backtick, Backtick, Backtick>>,
     <<Backtick, Backtick, Backtick, "{", "\"", "h", "e", "a", "d", "l", "i", "n", "e", "\"", ":", "{", "\"", "p", "t", "-", "b", "r", "\"", ":", "\"", "a", "\"", "}", "}", Backtick, Backtick, Backtick>>,
     <<" ", "{", "\"", "h", "e", "a", "d", "l", "i", "n", "e", "\"", ":", "{", "\"", "p", "t", "-", "b", "r", "\"", ":", "\"", "a", "\"", "}", "}", "\n">>,
     <<"H", "e", "r", "e", ":", " ", "{", "\"", "h", "e", "a", "d", "l", "i", "n", "e", "\"", ":", "{", "\"", "p", "t", "-", "b", "r", "\"", ":", "\"", "a", "\"", "}", "}">>,
     <<"{", "\"", "h", "e", "a", "d", "l", "i", "n", "e", "\"", ":", "{", "\"", "p", "t", "-", "b", "r", "\"", ":", "\"", "a", "\"", "}", "}", " ", "o", "k">>,
     <<"{", " ", "\"", "s", "u", "m", "m", "a", "r", "y", "\"", " ", ":", " ", "{", " ", "\"", "r", "u", "\"", " ", ":", " ", "\"", "b", "\"", " ", ",", " ", "\"", "r", "u", "\"", " ", ":", " ", "\"", "\"", " ", "}", " ", "}">>,
     <<Backtick, Backtick, Backtick, "j", "s", "o", "n", "\n", "{", " ", "\"", "s", "u", "m", "m", "a", "r", "y", "\"", " ", ":", " ", "{", " ", "\"", "r", "u", "\"", " ", ":", " ", "\"", "b", "\"", " ", ",", " ", "\"", "r", "u", "\"", " ", ":", " ", "\"", "\"", " ", "}", " ", "}", "\n", Backtick, Backtick, Backtick>>,
     <<Backtick, Backtick, Backtick, "{", " ", "\"", "s", "u", "m", "m", "a", "r", "y", "\"", " ", ":", " ", "{", " ", "\"", "r", "u", "\"", " ", ":", " ", "\"", "b", "\"", " ", ",", " ", "\"", "r", "u", "\"", " ", ":", " ", "\"", "\"", " ", "}", " ", "}", Backtick, Backtick, Backtick>>,
     <<" ", "{", " ", "\"", "s", "u", "m", "m", "a", "r", "y", "\"", " ", ":", " ", "{", " ", "\"", "r", "u", "\"", " ", ":", " ", "\"", "b", "\"", " ", ",", " ", "\"", "r", "u", "\"", " ", ":", " ", "\"", "\"", " ", "}", " ", "}", "\n">>,
     <<"H", "e", "r", "e", ":", " ", "{", " ", "\"", "s", "u", "m", "m", "a", "r", "y", "\"", " ", ":", " ", "{", " ", "\"", "r", "u", "\"", " ", ":", " ", "\"", "b", "\"", " ", ",", " ", "\"", "r", "u", "\"", " ", ":", " ", "\"", "\"", " ", "}", " ", "}">>,
     <<"{", " ", "\"", "s", "u", "m", "m", "a", "r", "y", "\"", " ", ":", " ", "{", " ", "\"", "r", "u", "\"", " ", ":", " ", "\"", "b", "\"", " ", ",", " ", "\"", "r", "u", "\"", " ", ":", " ", "\"", "\"", " ", "}", " ", "}", " ", "o", "k">>,
     <<"{", "}">>,
     <<Backtick, Backtick, Backtick, "j", "s", "o", "n", "\n", "{", "}", "\n", Backtick, Backtick, Backtick>>,
     <<Backtick, Backtick, Backtick, "{", "}", Backtick, Backtick, Backtick>>,
     <<" ", "{", "}", "\n">>,
     <<"H", "e", "r", "e", ":", " ", "{", "}">>,
     <<"{", "}", " ", "o", "k">>,
     <<"5">>,
     <<Backtick, Backtick, Backtick, "j", "s", "o", "n", "\n", "5", "\n", Backtick, Backtick, Backtick>>,
     <<Backtick, Backtick, Backtick, "5", Backtick, Backtick, Backtick>>,
     <<" ", "5", "\n">>,
     <<"H", "e", "r", "e", ":", " ", "5">>,
     <<"5", " ", "o", "k">>,
     <<"-", "1", ".", "5", "e", "3">>,
     <<Backtick, Backtick, Backtick, "j", "s", "o", "n", "\n", "-", "1", ".", "5", "e", "3", "\n", Backtick, Backtick, Backtick>>,
     <<Backtick, Backtick, Backtick, "-", "1", ".", "5", "e", "3", Backtick, Backtick, Backtick>>,
     <<" ", "-", "1", ".", "5", "e", "3", "\n">>,
     <<"H", "e", "r", "e", ":", " ", "-", "1", ".", "5", "e", "3">>,
     <<"-", "1", ".", "5", "e", "3", " ", "o", "k">>,
     <<"\"", "x", "\"">>,
     <<Backtick, Backtick, Backtick, "j", "s", "o", "n", "\n", "\"", "x", "\"", "\n", Backtick, Backtick, Backtick>>,
     <<Backtick, Backtick, Backtick, "\"", "x", "\"", Backtick, Backtick, Backtick>>,
     <<" ", "\"", "x", "\"", "\n">>,
     <<"H", "e", "r", "e", ":", " ", "\"", "x", "\"">>,
     <<"\"", "x", "\"", " ", "o", "k">>,
     <<"[", "1", "]">>,
     <<Backtick, Backtick, Backtick, "j", "s", "o", "n", "\n", "[", "1", "]", "\n", Backtick, Backtick, Backtick>>,
     <<Backtick, Backtick, Backtick, "[", "1", "]", Backtick, Backtick, Backtick>>,
     <<" ", "[", "1", "]", "\n">>,
     <<"H", "e", "r", "e", ":", " ", "[", "1", "]">>,
     <<"[", "1", "]", " ", "o", "k">>,
     <<"[", "{", "\"", "e", "s", "\"", ":", "\"", "a", "\"", "}", "]">>,
     <<Backtick, Backtick, Backtick, "j", "s", "o", "n", "\n", "[", "{", "\"", "e", "s", "\"", ":", "\"", "a", "\"", "}", "]", "\n", Backtick, Backtick, Backtick>>,
     <<Backtick, Backtick, Backtick, "[", "{", "\"", "e", "s", "\"", ":", "\"", "a", "\"", "}", "]", Backtick, Backtick, Backtick>>,
     <<" ", "[", "{", "\"", "e", "s", "\"", ":", "\"", "a", "\"", "}", "]", "\n">>,
     <<"H", "e", "r", "e", ":", " ", "[", "{", "\"", "e", "s", "\"", ":", "\"", "a", "\"", "}", "]">>,
     <<"[", "{", "\"", "e", "s", "\"", ":", "\"", "a", "\"", "}", "]", " ", "o", "k">>,
     <<"n", "u", "l", "l">>,
     <<Backtick, Backtick, Backtick, "j", "s", "o", "n", "\n", "n", "u", "l", "l", "\n", Backtick, Backtick, Backtick>>,
     <<Backtick, Backtick, Backtick, "n", "u", "l", "l", Backtick, Backtick, Backtick>>,
     <<" ", "n", "u", "l", "l", "\n">>,
     <<"H", "e", "r", "e", ":", " ", "n", "u", "l", "l">>,
     <<"n", "u", "l", "l", " ", "o", "k">>,
     <<"t", "r", "u", "e">>,
     <<Backtick, Backtick, Backtick, "j", "s", "o", "n", "\n", "t", "r", "u", "e", "\n", Backtick, Backtick, Backtick>>,
     <<Backtick, Backtick, Backtick, "t", "r", "u", "e", Backtick, Backtick, Backtick>>,
     <<" ", "t", "r", "u", "e", "\n">>,
     <<"H", "e", "r", "e", ":", " ", "t", "r", "u", "e">>,
     <<"t", "r", "u", "e", " ", "o", "k">>,
     <<>>,
     <<Backtick, Backtick, Backtick, "j", "s", "o", "n", "\n", "\n", Backtick, Backtick, Backtick>>,
     <<Backtick, Backtick, Backtick, Backtick, Backtick, Backtick>>,
     <<" ", "\n">>,
     <<"H", "e", "r", "e", ":", " ">>,
     <<" ", "o", "k">>,
     <<"s", "o", "r", "r", "y">>,
     <<Backtick, Backtick, Backtick, "j", "s", "o", "n", "\n", "s", "o", "r", "r", "y", "\n", Backtick, Backtick, Backtick>>,
     <<Backtick, Backtick, Backtick, "s", "o", "r", "r", "y", Backtick, Backtick, Backtick>>,
     <<" ", "s", "o", "r", "r", "y", "\n">>,
     <<"H", "e", "r", "e", ":", " ", "s", "o", "r", "r", "y">>,
     <<"s", "o", "r", "r", "y", " ", "o", "k">>,
     <<"{", "\"", "h", "e", "a", "d", "l", "i", "n", "e", "\"", ":", "{", "\"", "e", "s", "\"", ":", "\"", "a", "\"">>,
     <<Backtick, Backtick, Backtick, "j", "s", "o", "n", "\n", "{", "\"", "h", "e", "a", "d", "l", "i", "n", "e", "\"", ":", "{", "\"", "e", "s", "\"", ":", "\"", "a", "\"", "\n", Backtick, Backtick, Backtick>>,
     <<Backtick, Backtick, Backtick, "{", "\"", "h", "e", "a", "d", "l", "i", "n", "e", "\"", ":", "{", "\"", "e", "s", "\"", ":", "\"", "a", "\"", Backtick, Backtick, Backtick>>,
     <<" ", "{", "\"", "h", "e", "a", "d", "l", "i", "n", "e", "\"", ":", "{", "\"", "e", "s", "\"", ":", "\"", "a", "\"", "\n">>,
     <<"H", "e", "r", "e", ":", " ", "{", "\"", "h", "e", "a", "d", "l", "i", "n", "e", "\"", ":", "{", "\"", "e", "s", "\"", ":", "\"", "a", "\"">>,
     <<"{", "\"", "h", "e", "a", "d", "l", "i", "n", "e", "\"", ":", "{", "\"", "e", "s", "\"", ":", "\"", "a", "\"", " ", "o", "k">>,
     <<"{", "\"", "h", "e", "a", "d", "l", "i", "n", "e", "\"", ":", "n", "u", "l", "l", ",", "\"", "s", "u", "m", "m", "a", "r", "y", "\"", ":", "[", "1", ",", " ", "2", "]", "}">>,
     <<Backtick, Backtick, Backtick, "j", "s", "o", "n", "\n", "{", "\"", "h", "e", "a", "d", "l", "i", "n", "e", "\"", ":", "n", "u", "l", "l", ",", "\"", "s", "u", "m", "m", "a", "r", "y", "\"", ":", "[", "1", ",", " ", "2", "]", "}", "\n", Backtick, Backtick, Backtick>>,
     <<Backtick, Backtick, Backtick, "{", "\"", "h", "e", "a", "d", "l", "i", "n", "e", "\"", ":", "n", "u", "l", "l", ",", "\"", "s", "u", "m", "m", "a", "r", "y", "\"", ":", "[", "1", ",", " ", "2", "]", "}", Backtick, Backtick, Backtick>>,
     <<" ", "{", "\"", "h", "e", "a", "d", "l", "i", "n", "e", "\"", ":", "n", "u", "l", "l", ",", "\"", "s", "u", "m", "m", "a", "r", "y", "\"", ":", "[", "1", ",", " ", "2", "]", "}", "\n">>,
     <<"H", "e", "r", "e", ":", " ", "{", "\"", "h", "e", "a", "d", "l", "i", "n", "e", "\"", ":", "n", "u", "l", "l", ",", "\"", "s", "u", "m", "m", "a", "r", "y", "\"", ":", "[", "1", ",", " ", "2", "]", "}">>,
     <<"{", "\"", "h", "e", "a", "d", "l", "i", "n", "e", "\"", ":", "n", "u", "l", "l", ",", "\"", "s", "u", "m", "m", "a", "r", "y", "\"", ":", "[", "1", ",", " ", "2", "]", "}", " ", "o", "k">>,
     <<"{", "\"", "h", "e", "a", "d", "l", "i", "n", "e", "\"", ":", "{", "}", "}", " ", "{", "\"", "s", "u", "m", "m", "a", "r", "y", "\"", ":", "{", "}", "}">>,
     <<Backtick, Backtick, Backtick, "j", "s", "o", "n", "\n", "{", "\"", "h", "e", "a", "d", "l", "i", "n", "e", "\"", ":", "{", "}", "}", " ", "{", "\"", "s", "u", "m", "m", "a", "r", "y", "\"", ":", "{", "}", "}", "\n", Backtick, Backtick, Backtick>>,
     <<Backtick, Backtick, Backtick, "{", "\"", "h", "e", "a", "d", "l", "i", "n", "e", "\"", ":", "{", "}", "}", " ", "{", "\"", "s", "u", "m", "m", "a", "r", "y", "\"", ":", "{", "}", "}", Backtick, Backtick, Backtick>>,
     <<" ", "{", "\"", "h", "e", "a", "d", "l", "i", "n", "e", "\"", ":", "{", "}", "}", " ", "{", "\"", "s", "u", "m", "m", "a", "r", "y", "\"", ":", "{", "}", "}", "\n">>,
     <<"H", "e", "r", "e", ":", " ", "{", "\"", "h", "e", "a", "d", "l", "i", "n", "e", "\"", ":", "{", "}", "}", " ", "{", "\"", "s", "u", "m", "m", "a", "r", "y", "\"", ":", "{", "}", "}">>,
     <<"{", "\"", "h", "e", "a", "d", "l", "i", "n", "e", "\"", ":", "{", "}", "}", " ", "{", "\"", "s", "u", "m", "m", "a", "r", "y", "\"", ":", "{", "}", "}", " ", "o", "k">>,
     <<"{", "\"", "h", "e", "a", "d", "l", "i", "n", "e", "\"", ":", "{", "\"", "f", "r", "\"", ":", "\"", "a", "\\", "n", "b", "\"", "}", "}">>,
     <<Backtick, Backtick, Backtick, "j", "s", "o", "n", "\n", "{", "\"", "h", "e", "a", "d", "l", "i", "n", "e", "\"", ":", "{", "\"", "f", "r", "\"", ":", "\"", "a", "\\", "n", "b", "\"", "}", "}", "\n", Backtick, Backtick, Backtick>>,
     <<Backtick, Backtick, Backtick, "{", "\"", "h", "e", "a", "d", "l", "i", "n", "e", "\"", ":", "{", "\"", "f", "r", "\"", ":", "\"", "a", "\\", "n", "b", "\"", "}", "}", Backtick, Backtick, Backtick>>,
     <<" ", "{", "\"", "h", "e", "a", "d", "l", "i", "n", "e", "\"", ":", "{", "\"", "f", "r", "\"", ":", "\"", "a", "\\", "n", "b", "\"", "}", "}", "\n">>,
     <<"H", "e", "r", "e", ":", " ", "{", "\"", "h", "e", "a", "d", "l", "i", "n", "e", "\"", ":", "{", "\"", "f", "r", "\"", ":", "\"", "a", "\\", "n", "b", "\"", "}", "}">>,
     <<"{", "\"", "h", "e", "a", "d", "l", "i", "n", "e", "\"", ":", "{", "\"", "f", "r", "\"", ":", "\"", "a", "\\", "n", "b", "\"", "}", "}", " ", "o", "k">>}

InitTranslate ==
    /\ ScraperInit
    /\ source = Bauwelt
    /\ fn = "parse_translation_response"
    /\ arg \in Responses
    /\ result = Pending

ParseTranslationReturns ==
    /\ fn = "parse_translation_response"
    /\ ~result.returned
    /\ result' = Returns(parse_translation_response(arg))
    /\ UNCHANGED <<fn, arg>>
    /\ UNCHANGED scraperVars

NextTranslate == ParseTranslationReturns

SpecTranslate == InitTranslate /\ [][NextTranslate]_vars

\* C30: parse_translation_response never raises; it returns headline and
\* summary, each mapping only expected language codes to non-blank strings,
\* and both are empty when the reply could not be parsed.
C30_NeverRaises ==
    (fn = "parse_translation_response" /\ result.returned) =>
        /\ ~result.value.raised
        /\ \A d \in {result.value.headline, result.value.summary} :
              /\ DOMAIN d \subseteq TARGET_LANGUAGES
              /\ \A k \in DOMAIN d : StripWhite(d[k]) # <<>>
        /\ result.value.failed =>
              /\ result.value.headline = NoTranslations
              /\ result.value.summary = NoTranslations

=============================================================================
